---- MODULE Spec2Model ----
(***************************************************************************)
(* A model of the sekejap embedded multi-model store: the node and edge    *)
(* arenas, the blob arena, the mmap Robin-Hood slug index, the per-        *)
(* collection bitmaps with their .rbm files, the adjacency maps, and the   *)
(* pipeline executor with its breadth-first traversals.                    *)
(*                                                                         *)
(* Engine operations are operators from a store record to a store record,  *)
(* written after the Rust functions of the same name; the actions apply    *)
(* them to the variables.  Files that are memory-mapped (arenas, blobs,    *)
(* slug index) keep their content across close and open; everything else   *)
(* is rebuilt by SekejapDB::new.                                           *)
(***************************************************************************)
EXTENDS Integers, Sequences, FiniteSets, TLC

VARIABLES
    nodes,              \* nodes.mmap: arena index -> NodeSlot
    node_head,          \* nodes.write_head (in memory)
    node_committed,     \* nodes header committed_count (in the file)
    blobs,              \* blobs.mmap: offset -> payload
    blob_offset,        \* blobs.write_offset (in memory)
    blob_committed,     \* blobs header committed offset (in the file)
    slug_index,         \* slug_index.mhash: [slots, count]
    bitmaps,            \* CollectionBitmapIndex.bitmaps (in memory)
    dirty,              \* CollectionBitmapIndex.dirty
    rbm_files,          \* collections/<hash>.rbm files on disk
    collection_counts,  \* collection_counts (in memory)
    edges,              \* edges.mmap: arena index -> EdgeSlot
    edge_head,          \* edges.write_head (in memory)
    edge_committed,     \* edges header committed_count (in the file)
    adj_fwd,            \* adj_fwd: node index -> sequence of edge indices
    adj_rev,            \* adj_rev: node index -> sequence of edge indices
    field_hash_indexes, \* field_hash_indexes: field name -> HashIndex (in memory)
    kv,                 \* history: slug -> payload of its last write, None after delete
    upserted,           \* history: slugs whose last write hit an existing slug
    batch,              \* ingest_edges_batch in flight: one worker per item
    steps,              \* Set.steps of the pipeline being executed
    pc,                 \* position of execute_pipeline in steps
    candidates,         \* execute_pipeline: candidates (None or Some(bitmap))
    pending_hops,       \* execute_pipeline: pending_hops
    hops_used,          \* history: hop count each executed traversal step ran with
    sort_by,            \* Set.sort_by: None or Some(<<field, ascending>>)
    skip_n,             \* Set.skip_n
    select_fields,      \* Set.select_fields: None or Some(fields)
    calls,              \* history: the builder methods called on the Set, in order
    outcome,            \* Outcome.data of collect: None before it returns
    range_index,        \* one RangeIndex taken alone: [data, reverse]
    writers,            \* threads inside write_with_value: thread -> its position and locals
    leaked,             \* history: node indices reserved and not committed at a crash
    failed_writes,      \* history: node indices whose write reserved a slot and then failed
    op_result,          \* history: what the last store operation returned
    graph,              \* HNSWGraph: [nodes, entry_point]
    storage,            \* ArenaVectorStore: arena index -> vector
    inserts,            \* threads inside insert_index: thread -> its position and locals
    search_out,         \* history: the last HyperHNSW::search, [query, results]
    insert_log,         \* history: the insert_index calls that ended, [idx, found], in order
    tracker,            \* FastVersionTracker: [current, active, next_txn_id]
    txns,               \* the Transaction values handed out by begin
    snapshots,          \* history: the Snapshot values taken
    restored,           \* the last backup, the store it was taken of and the store restored from it
    bfs_out,            \* the four traversals of one frontier, as they returned
    wal,                \* DiskWal: next_lsn, the group-commit buffer and the log file
    wal_calls,          \* the append and sync calls in progress, and the flush thread
    hidx,               \* HashIndex: forward map, reverse map and count
    hidx_calls,         \* the insert and remove calls in progress
    parsed              \* the last query text given to parse_pipeline and what it returned

storeVars == <<nodes, node_head, node_committed, blobs, blob_offset, blob_committed,
               slug_index, bitmaps, dirty, rbm_files, collection_counts,
               edges, edge_head, edge_committed, adj_fwd, adj_rev,
               field_hash_indexes>>
histVars == <<kv, upserted>>
setVars == <<sort_by, skip_n, select_fields, calls, outcome>>
writeVars == <<writers, leaked, failed_writes, op_result>>
annVars == <<graph, storage, inserts, search_out, insert_log>>
txnVars == <<tracker, txns, snapshots>>
auxVars == <<restored, bfs_out, wal, wal_calls, hidx, hidx_calls, parsed>>
extVars == <<writeVars, annVars, txnVars, auxVars>>
pipeVars == <<steps, pc, candidates, pending_hops, hops_used, setVars, range_index, extVars>>
vars == <<storeVars, histVars, batch, pipeVars>>

-----------------------------------------------------------------------------
(* Bounds of the model. *)

MaxNodes == 4       \* node slots a run of Spec may reserve
MaxEdges == 3       \* edge slots a run of SpecGraph may reserve
MaxHops  == 3       \* largest hop count a traversal is asked for

None == <<>>
Some(x) == <<x>>
IsSome(o) == o # <<>>
Unwrap(o) == o[1]

\* A function on a sparse domain: f with x mapped to v.
Put(f, x, v) == [y \in (DOMAIN f) \cup {x} |-> IF y = x THEN v ELSE f[y]]

\* The values a function takes.
Range(f) == {f[x] : x \in DOMAIN f}

-----------------------------------------------------------------------------
(* Slugs, payloads and hashes.  seahash is modelled by a table that is     *)
(* injective on the names the model uses; three slug hashes share one home *)
(* slot of the slug index and a fourth has the next home slot.             *)

Slugs == {"u/a", "u/b", "p/c", "u/d"}
StoreSlugs == {"u/a", "u/b", "p/c"}
Collections == {"u", "p", "nodes"}
EdgeTypes == {"next", "other"}
\* A payload is a JSON object with one field; every write of a run carries
\* a payload no earlier write carried, so a read tells the writes apart.
Payload(n) == [val |-> n]

HashCapacity == 2048

seahash(s) ==
    CASE s = "u/a" -> 1
      [] s = "u/b" -> 1 + HashCapacity
      [] s = "p/c" -> 1 + 2 * HashCapacity
      [] s = "u/d" -> 2
      [] s = "u" -> 101
      [] s = "p" -> 102
      [] s = "nodes" -> 103
      [] s = "next" -> 201
      [] s = "other" -> 202
      [] s = "nodes/untitled" -> 3
      [] s = "" -> 4

\* The part of the slug before the first '/', or the whole lookup failing.
SlugPrefix(slug) ==
    CASE slug \in {"u/a", "u/b", "u/d"} -> Some("u")
      [] slug = "p/c" -> Some("p")
      [] OTHER -> None

parse_entity_id(slug) ==
    LET full_hash == seahash(slug)
        collection_hash == IF IsSome(SlugPrefix(slug))
                           THEN seahash(Unwrap(SlugPrefix(slug)))
                           ELSE seahash("nodes")
    IN  <<collection_hash, full_hash>>

-----------------------------------------------------------------------------
(* MmapHashIndex: Robin-Hood open addressing.  slots holds the slots that  *)
(* were ever written; every other slot of the file is zero (key 0).        *)

U64Max == -1            \* u64::MAX, all bits set
KeyEmpty == 0
KeyTombstone == U64Max

EmptySlot == [key |-> KeyEmpty, value |-> 0, probe_dist |-> 0]

NewHashIndex == [slots |-> <<>>, count |-> 0]

read_slot(h, pos) == IF pos \in DOMAIN h.slots THEN h.slots[pos] ELSE EmptySlot

write_slot(h, pos, s) == [h EXCEPT !.slots = Put(h.slots, pos, s)]

RECURSIVE GetProbe(_, _, _, _)
GetProbe(h, key, pos, probe_dist) ==
    LET slot == read_slot(h, pos) IN
    IF slot.key = KeyEmpty THEN None
    ELSE IF slot.key = key THEN Some(slot.value)
    ELSE IF slot.probe_dist < probe_dist THEN None
    ELSE GetProbe(h, key, (pos + 1) % HashCapacity, probe_dist + 1)

get(h, key) ==
    IF key = KeyEmpty \/ key = KeyTombstone THEN None
    ELSE GetProbe(h, key, key % HashCapacity, 0)

RECURSIVE InsertProbe(_, _, _, _)
InsertProbe(h, pos, incoming, count_bumped) ==
    LET slot == read_slot(h, pos) IN
    IF slot.key = KeyEmpty \/ slot.key = KeyTombstone THEN
        LET placed == write_slot(h, pos, incoming) IN
        IF count_bumped THEN placed ELSE [placed EXCEPT !.count = @ + 1]
    ELSE IF slot.key = incoming.key THEN
        write_slot(h, pos, [slot EXCEPT !.value = incoming.value])
    ELSE
        LET steal == incoming.probe_dist > slot.probe_dist
            h2 == IF ~steal THEN h
                  ELSE IF count_bumped THEN write_slot(h, pos, incoming)
                  ELSE [write_slot(h, pos, incoming) EXCEPT !.count = @ + 1]
            carried == IF steal THEN slot ELSE incoming
        IN  IF carried.probe_dist >= HashCapacity
            THEN h2     \* panic "table full": the insert is abandoned here
            ELSE InsertProbe(h2, (pos + 1) % HashCapacity,
                             [carried EXCEPT !.probe_dist = @ + 1],
                             count_bumped \/ steal)

insert(h, key, value) ==
    IF key = KeyEmpty \/ key = KeyTombstone THEN h
    ELSE InsertProbe(h, key % HashCapacity,
                     [key |-> key, value |-> value, probe_dist |-> 0], FALSE)

RECURSIVE RemoveProbe(_, _, _, _)
RemoveProbe(h, key, pos, probe_dist) ==
    LET slot == read_slot(h, pos) IN
    IF slot.key = KeyEmpty THEN h
    ELSE IF slot.key = key THEN
        [write_slot(h, pos, [key |-> KeyTombstone, value |-> 0, probe_dist |-> 0])
            EXCEPT !.count = IF @ = 0 THEN U64Max ELSE @ - 1]
    ELSE IF slot.probe_dist < probe_dist THEN h
    ELSE RemoveProbe(h, key, (pos + 1) % HashCapacity, probe_dist + 1)

remove(h, key) ==
    IF key = KeyEmpty \/ key = KeyTombstone THEN h
    ELSE RemoveProbe(h, key, key % HashCapacity, 0)

-----------------------------------------------------------------------------
(* DurableArena<T> and BlobArena.  An arena is the function from the slot  *)
(* indices ever written to their content; an unwritten slot reads as       *)
(* T::default(), the zero bytes of the fresh file.                         *)

DefaultNodeSlot == [slug_hash |-> 0, collection_hash |-> 0, flags |-> 0, blob_offset |-> 0]
DefaultEdgeSlot == [from_node |-> 0, to_node |-> 0, edge_type_hash |-> 0, flags |-> 0]

write_at(arena, idx, item) == Put(arena, idx, item)

read_node(S, idx) == IF idx \in DOMAIN S.nodes THEN S.nodes[idx] ELSE DefaultNodeSlot
read_edge(S, idx) == IF idx \in DOMAIN S.edges THEN S.edges[idx] ELSE DefaultEdgeSlot

BlobHeader == 64        \* first payload byte of blobs.mmap
BlobLen(data) == 1      \* every payload of the model is one unit long

\* BlobArena::append: reserve len bytes at write_offset and copy the data in.
append(S, data) ==
    [S EXCEPT !.blobs = Put(S.blobs, S.blob_offset, data),
              !.blob_offset = @ + BlobLen(data)]

blob_read(S, offset) == S.blobs[offset]

-----------------------------------------------------------------------------
(* CollectionBitmapIndex. *)

bitmap_insert(S, collection_hash, node_idx) ==
    LET old == IF collection_hash \in DOMAIN S.bitmaps THEN S.bitmaps[collection_hash] ELSE {}
    IN  [S EXCEPT !.bitmaps = Put(S.bitmaps, collection_hash, old \cup {node_idx}),
                  !.dirty = @ \cup {collection_hash}]

bitmap_remove(S, collection_hash, node_idx) ==
    IF collection_hash \in DOMAIN S.bitmaps THEN
        [S EXCEPT !.bitmaps[collection_hash] = @ \ {node_idx},
                  !.dirty = @ \cup {collection_hash}]
    ELSE IF collection_hash \in DOMAIN S.rbm_files THEN   \* load_from_disk, then remove
        [S EXCEPT !.bitmaps = Put(S.bitmaps, collection_hash,
                                  S.rbm_files[collection_hash] \ {node_idx}),
                  !.dirty = @ \cup {collection_hash}]
    ELSE S

\* The bitmap get_snapshot returns.
get_snapshot(S, collection_hash) ==
    IF collection_hash \in DOMAIN S.bitmaps THEN S.bitmaps[collection_hash]
    ELSE IF collection_hash \in DOMAIN S.rbm_files THEN S.rbm_files[collection_hash]
    ELSE {}

\* The store get_snapshot leaves: a bitmap loaded from disk stays cached.
get_snapshot_load(S, collection_hash) ==
    IF collection_hash \notin DOMAIN S.bitmaps /\ collection_hash \in DOMAIN S.rbm_files
    THEN [S EXCEPT !.bitmaps = Put(S.bitmaps, collection_hash, S.rbm_files[collection_hash])]
    ELSE S

bitmap_flush(S) ==
    [S EXCEPT !.rbm_files = [h \in (DOMAIN S.rbm_files) \cup (S.dirty \cap DOMAIN S.bitmaps) |->
                                IF h \in S.dirty /\ h \in DOMAIN S.bitmaps
                                THEN S.bitmaps[h] ELSE S.rbm_files[h]],
              !.dirty = {}]

\* pairs: the (collection_hash, node_idx) pairs of the arena scan.
rebuild_from_iter(S, pairs) ==
    LET hashes == {p[1] : p \in pairs} IN
    [S EXCEPT !.bitmaps = [h \in hashes |-> {p[2] : p \in {q \in pairs : q[1] = h}}],
              !.dirty = hashes]

-----------------------------------------------------------------------------
(* JSON values of payload fields, and HashIndex: the hash of a value to    *)
(* the nodes that carry it, with the reverse map used by removals.         *)
(* DefaultHasher is modelled by the bytes it is fed: two values have one   *)
(* hash exactly when they feed it the same bytes.                          *)

JString(s) == [kind |-> "String", num |-> 0, str |-> s]
JNumber(n) == [kind |-> "Number", num |-> n, str |-> ""]
JBool(b) == [kind |-> "Bool", num |-> IF b THEN 1 ELSE 0, str |-> ""]
JNull == [kind |-> "Null", num |-> 0, str |-> ""]

\* serde_json Value::get on an object.
json_get(value, field) == IF field \in DOMAIN value THEN Some(value[field]) ELSE None

\* Number::to_string on the integers the model writes.
to_string(n) ==
    CASE n = 0 -> "0"
      [] n = 1 -> "1"
      [] n = 2 -> "2"
      [] n = 3 -> "3"

\* str and String feed their bytes and 0xff; bool and u8 feed one byte.
hash_value(value) ==
    CASE value.kind = "String" -> <<"bytes", value.str>>
      [] value.kind = "Number" -> <<"bytes", to_string(value.num)>>
      [] value.kind = "Bool" -> <<"u8", to_string(value.num)>>
      [] value.kind = "Null" -> <<"u8", to_string(0)>>

NewFieldIndex == [index |-> <<>>, reverse |-> <<>>]

\* f without x.
Drop(f, x) == [y \in (DOMAIN f) \ {x} |-> f[y]]

\* nodes.iter().position(|&x| x == node_idx): 0 stands for None.
position(v, x) ==
    IF \E i \in 1..Len(v) : v[i] = x
    THEN CHOOSE i \in 1..Len(v) : v[i] = x /\ \A j \in 1..(i - 1) : v[j] # x
    ELSE 0

\* Vec::swap_remove: the last element takes the place of the removed one.
swap_remove(v, pos) ==
    LET w == SubSeq(v, 1, Len(v) - 1) IN
    IF pos = Len(v) THEN w ELSE [w EXCEPT ![pos] = v[Len(v)]]

hash_index_remove(h, node_idx) ==
    IF node_idx \notin DOMAIN h.reverse THEN h
    ELSE LET old_hash == h.reverse[node_idx]
             h1 == [h EXCEPT !.reverse = Drop(h.reverse, node_idx)]
         IN  IF old_hash \notin DOMAIN h1.index THEN h1
             ELSE LET found == h1.index[old_hash]
                      pos == position(found, node_idx)
                      left == IF pos # 0 THEN swap_remove(found, pos) ELSE found
                  IN  IF left = <<>>
                      THEN [h1 EXCEPT !.index = Drop(h1.index, old_hash)]
                      ELSE [h1 EXCEPT !.index[old_hash] = left]

hash_index_insert(h, node_idx, value) ==
    LET h1 == hash_index_remove(h, node_idx)
        hash == hash_value(value)
    IN  [h1 EXCEPT !.index = Put(h1.index, hash,
                                 IF hash \in DOMAIN h1.index
                                 THEN Append(h1.index[hash], node_idx)
                                 ELSE <<node_idx>>),
                   !.reverse = Put(h1.reverse, node_idx, hash)]

lookup_eq(h, value) ==
    LET hash == hash_value(value) IN
    IF hash \in DOMAIN h.index THEN h.index[hash] ELSE <<>>

\* for entry in field_hash_indexes.iter(): insert the field the value has.
index_hot_fields(S, n_idx, value) ==
    [S EXCEPT !.field_hash_indexes =
        [f \in DOMAIN S.field_hash_indexes |->
            IF IsSome(json_get(value, f))
            THEN hash_index_insert(S.field_hash_indexes[f], n_idx, Unwrap(json_get(value, f)))
            ELSE S.field_hash_indexes[f]]]

\* for entry in field_hash_indexes.iter(): entry.value().remove(idx)
unindex_hot_fields(S, idx) ==
    [S EXCEPT !.field_hash_indexes =
        [f \in DOMAIN S.field_hash_indexes |->
            hash_index_remove(S.field_hash_indexes[f], idx)]]

\* schema().define(name, json) with hot_fields.hash_index = fields: each
\* field gets an empty index unless it has one.  The stores of this model
\* define no range index, so the loops over field_range_indexes run no turn.
define_collection_internal(S, fields) ==
    [S EXCEPT !.field_hash_indexes =
        [f \in (DOMAIN S.field_hash_indexes) \cup fields |->
            IF f \in DOMAIN S.field_hash_indexes
            THEN S.field_hash_indexes[f] ELSE NewFieldIndex]]

-----------------------------------------------------------------------------
(* RangeIndex: entries [value, node_idx] sorted by value, and the reverse  *)
(* list of (node_idx, position hint) sorted by node.  Positions count from *)
(* 0 as in the code; data[pos + 1] is the entry at position pos.           *)

NewRangeIndex == [data |-> <<>>, reverse |-> <<>>]

\* to_f64: the number of a Number; the model gives it no numeric String.
to_f64(value) == IF value.kind = "Number" THEN Some(value.num) ELSE None

\* The positions slice::binary_search_by may return, Ok and Err folded by
\* unwrap_or_else(|x| x): the position of any entry with the value when
\* there is one, else the place where the value would be inserted.
binary_search_by(data, num) ==
    IF \E i \in 1..Len(data) : data[i].value = num
    THEN {i - 1 : i \in {j \in 1..Len(data) : data[j].value = num}}
    ELSE {Cardinality({j \in 1..Len(data) : data[j].value < num})}

lower_bound(data, min) == binary_search_by(data, min)

RECURSIVE upper_bound_loop(_, _, _, _)
upper_bound_loop(data, max, lo, hi) ==
    IF lo < hi
    THEN LET mid == lo + (hi - lo) \div 2 IN
         IF data[mid + 1].value <= max
         THEN upper_bound_loop(data, max, mid + 1, hi)
         ELSE upper_bound_loop(data, max, lo, mid)
    ELSE lo

upper_bound(data, max) == upper_bound_loop(data, max, 0, Len(data))

\* Vec::remove and Vec::insert at a position counted from 0.
vec_remove(v, pos) == SubSeq(v, 1, pos) \o SubSeq(v, pos + 2, Len(v))
vec_insert(v, pos, x) == SubSeq(v, 1, pos) \o <<x>> \o SubSeq(v, pos + 1, Len(v))

range_index_remove(r, node_idx) ==
    LET at == {k \in 1..Len(r.reverse) : r.reverse[k][1] = node_idx} IN
    IF at = {} THEN r
    ELSE LET k == CHOOSE x \in at : TRUE
             data_pos == r.reverse[k][2]
             actual == {i \in 1..Len(r.data) : r.data[i].node_idx = node_idx}
             data1 == IF data_pos < Len(r.data) /\ r.data[data_pos + 1].node_idx = node_idx
                      THEN vec_remove(r.data, data_pos)
                      ELSE IF actual # {}
                           THEN vec_remove(r.data, (CHOOSE i \in actual :
                                                       \A j \in actual : i <= j) - 1)
                           ELSE r.data
         IN  [data |-> data1, reverse |-> vec_remove(r.reverse, k - 1)]

\* rev.push((node_idx, pos)); rev.sort_by_key(|(idx, _)| *idx)
reverse_push_sorted(rev, node_idx, pos) ==
    vec_insert(rev, Cardinality({k \in 1..Len(rev) : rev[k][1] <= node_idx}),
               <<node_idx, pos>>)

\* insert, after the old entry of the node is removed, when the binary
\* search of the insertion point answered pos.
range_index_insert_at(r, node_idx, num, pos) ==
    [data |-> vec_insert(r.data, pos, [value |-> num, node_idx |-> node_idx]),
     reverse |-> reverse_push_sorted(r.reverse, node_idx, pos)]

\* lookup_range when lower_bound answered start: data[start..end].
lookup_range(r, min_val, max_val, start) ==
    LET end == upper_bound(r.data, max_val) IN
    [i \in 1..(end - start) |-> r.data[start + i].node_idx]

-----------------------------------------------------------------------------
(* SekejapDB: the engine's write, delete, link and unlink paths. *)

\* collection_counts.entry(h).or_insert(0).fetch_add(1)
count_add(S, h) ==
    [S EXCEPT !.collection_counts =
        Put(S.collection_counts, h,
            IF h \in DOMAIN S.collection_counts THEN S.collection_counts[h] + 1 ELSE 1)]

\* if let Some(count) = collection_counts.get(h) { count.fetch_sub(1) }
count_sub(S, h) ==
    IF h \in DOMAIN S.collection_counts
    THEN [S EXCEPT !.collection_counts[h] = IF @ = 0 THEN U64Max ELSE @ - 1]
    ELSE S

\* Inject the slug as _id when the payload has none.
InjectId(value, slug) ==
    IF "_id" \in DOMAIN value THEN value
    ELSE [k \in (DOMAIN value) \cup {"_id"} |-> IF k = "_id" THEN slug ELSE value[k]]

write_with_value(S, slug, value) ==
    LET ids == parse_entity_id(slug)
        collection_hash == ids[1]
        slug_hash == ids[2]
        final_value == InjectId(value, slug)
        b_off == S.blob_offset
        S1 == append(S, final_value)
        n_idx == S1.node_head
        slot == [slug_hash |-> slug_hash, collection_hash |-> collection_hash,
                 flags |-> 1, blob_offset |-> b_off]
        S2 == [S1 EXCEPT !.node_head = @ + 1,
                         !.nodes = write_at(S1.nodes, n_idx, slot)]
        S3 == [S2 EXCEPT !.slug_index = insert(S2.slug_index, slug_hash, n_idx)]
        S4 == count_add(bitmap_insert(S3, collection_hash, n_idx), collection_hash)
        S5 == index_hot_fields(S4, n_idx, value)
    IN  [S5 EXCEPT !.node_committed = n_idx + 1,
                   !.blob_committed = S5.blob_offset]

read_internal(S, slug) ==
    LET idx == get(S.slug_index, parse_entity_id(slug)[2]) IN
    IF ~IsSome(idx) THEN None
    ELSE LET slot == read_node(S, Unwrap(idx)) IN
         IF slot.flags = 0 THEN None ELSE Some(blob_read(S, slot.blob_offset))

delete_internal(S, slug) ==
    LET slug_hash == parse_entity_id(slug)[2]
        found == get(S.slug_index, slug_hash)
    IN  IF ~IsSome(found) THEN S
        ELSE LET idx == Unwrap(found)
                 slot == read_node(S, idx)
                 S1 == [S EXCEPT !.nodes = write_at(S.nodes, idx, [slot EXCEPT !.flags = 0])]
                 S2 == bitmap_remove(count_sub(S1, slot.collection_hash),
                                     slot.collection_hash, idx)
                 S3 == unindex_hot_fields(S2, idx)
             IN  [S3 EXCEPT !.slug_index = remove(S3.slug_index, slug_hash)]

count_collection_internal(S, collection) ==
    LET col_hash == seahash(collection) IN
    IF col_hash \in DOMAIN S.collection_counts THEN S.collection_counts[col_hash] ELSE 0

\* adj.entry(n).or_default().push(e)
adj_push(adj, n, e) == Put(adj, n, IF n \in DOMAIN adj THEN Append(adj[n], e) ELSE <<e>>)

\* Ok(store) or Err(message); the store of an Err is the store left behind.
Ok(S) == [ok |-> TRUE, store |-> S]
Err(S) == [ok |-> FALSE, store |-> S]

add_edge_internal(S, source_slug, target_slug, edge_type) ==
    LET src == get(S.slug_index, parse_entity_id(source_slug)[2])
        dst == get(S.slug_index, parse_entity_id(target_slug)[2])
    IN  IF ~IsSome(src) \/ ~IsSome(dst) THEN Err(S)
        ELSE LET e_idx == S.edge_head
                 edge == [from_node |-> Unwrap(src), to_node |-> Unwrap(dst),
                          edge_type_hash |-> seahash(edge_type), flags |-> 1]
             IN  Ok([S EXCEPT !.edge_head = @ + 1,
                              !.edges = write_at(S.edges, e_idx, edge),
                              !.adj_fwd = adj_push(S.adj_fwd, Unwrap(src), e_idx),
                              !.adj_rev = adj_push(S.adj_rev, Unwrap(dst), e_idx),
                              !.edge_committed = e_idx + 1])

\* The first edge of the list that matches, or None (the loop's break).
RECURSIVE FirstMatch(_, _, _, _, _)
FirstMatch(S, list, i, dst_idx, type_hash) ==
    IF i > Len(list) THEN None
    ELSE LET edge == read_edge(S, list[i]) IN
         IF edge.to_node = dst_idx /\ edge.edge_type_hash = type_hash /\ edge.flags # 0
         THEN Some(list[i])
         ELSE FirstMatch(S, list, i + 1, dst_idx, type_hash)

delete_edge_internal(S, source, target, etype) ==
    LET src == get(S.slug_index, parse_entity_id(source)[2])
        dst == get(S.slug_index, parse_entity_id(target)[2])
    IN  IF ~IsSome(src) \/ ~IsSome(dst) THEN Err(S)
        ELSE IF Unwrap(src) \notin DOMAIN S.adj_fwd THEN Ok(S)
        ELSE LET hit == FirstMatch(S, S.adj_fwd[Unwrap(src)], 1, Unwrap(dst), seahash(etype)) IN
             IF ~IsSome(hit) THEN Ok(S)
             ELSE Ok([S EXCEPT !.edges[Unwrap(hit)].flags = 0])

flush(S) == bitmap_flush(S)

\* rebuild_indexes, first loop: slug index and collection counts, ascending i.
RECURSIVE RebuildNodes(_, _)
RebuildNodes(S, i) ==
    IF i >= S.node_head THEN S
    ELSE LET slot == read_node(S, i) IN
         IF slot.flags = 0 THEN RebuildNodes(S, i + 1)
         ELSE RebuildNodes(
                count_add([S EXCEPT !.slug_index = insert(S.slug_index, slot.slug_hash, i)],
                          slot.collection_hash),
                i + 1)

\* rebuild_indexes, edge loop: adjacency lists, ascending i.
RECURSIVE RebuildEdges(_, _)
RebuildEdges(S, i) ==
    IF i >= S.edge_head THEN S
    ELSE LET edge == read_edge(S, i) IN
         IF edge.flags = 0 THEN RebuildEdges(S, i + 1)
         ELSE RebuildEdges([S EXCEPT !.adj_fwd = adj_push(S.adj_fwd, edge.from_node, i),
                                     !.adj_rev = adj_push(S.adj_rev, edge.to_node, i)],
                           i + 1)

rebuild_indexes(S) ==
    LET S1 == RebuildNodes(S, 0)
        bm_pairs == {<<read_node(S, i).collection_hash, i>> :
                        i \in {j \in 0..(S.node_head - 1) : read_node(S, j).flags # 0}}
    IN  RebuildEdges(rebuild_from_iter(S1, bm_pairs), 0)

\* SekejapDB::new on the directory the store S leaves behind: the mapped
\* files are as they were, the in-memory structures start empty.
new(S) ==
    LET db == [S EXCEPT !.node_head = S.node_committed,
                        !.edge_head = S.edge_committed,
                        !.blob_offset = S.blob_committed,
                        !.adj_fwd = <<>>, !.adj_rev = <<>>,
                        !.collection_counts = <<>>,
                        !.bitmaps = <<>>, !.dirty = {},
                        !.field_hash_indexes = <<>>]
    IN  IF db.node_head > 0 THEN rebuild_indexes(db) ELSE db

\* SekejapDB::new on an empty directory.
EmptyStore ==
    [nodes |-> <<>>, node_head |-> 0, node_committed |-> 0,
     blobs |-> <<>>, blob_offset |-> BlobHeader, blob_committed |-> BlobHeader,
     slug_index |-> NewHashIndex,
     bitmaps |-> <<>>, dirty |-> {}, rbm_files |-> <<>>,
     collection_counts |-> <<>>,
     edges |-> <<>>, edge_head |-> 0, edge_committed |-> 0,
     adj_fwd |-> <<>>, adj_rev |-> <<>>,
     field_hash_indexes |-> <<>>]

\* add_edge_deferred up to write_at: resolve both ends, reserve a slot with
\* write_head.fetch_add and write the edge.  No commit.
add_edge_deferred_write(S, source_slug, target_slug, edge_type) ==
    LET src == get(S.slug_index, parse_entity_id(source_slug)[2])
        dst == get(S.slug_index, parse_entity_id(target_slug)[2])
    IN  IF ~IsSome(src) \/ ~IsSome(dst) THEN Err(S)
        ELSE LET e_idx == S.edge_head
                 edge == [from_node |-> Unwrap(src), to_node |-> Unwrap(dst),
                          edge_type_hash |-> seahash(edge_type), flags |-> 1]
             IN  [ok |-> TRUE, e_idx |-> e_idx,
                  store |-> [S EXCEPT !.edge_head = @ + 1,
                                      !.edges = write_at(S.edges, e_idx, edge)]]

\* add_edge_deferred_push without the adj_rev push.
add_edge_deferred_push_fwd_only(S, e_idx) ==
    LET edge == read_edge(S, e_idx) IN
    [S EXCEPT !.adj_fwd = adj_push(S.adj_fwd, edge.from_node, e_idx)]

\* add_edge_deferred from write_at on: the two adjacency pushes.
add_edge_deferred_push(S, e_idx) ==
    LET edge == read_edge(S, e_idx) IN
    [S EXCEPT !.adj_fwd = adj_push(S.adj_fwd, edge.from_node, e_idx),
              !.adj_rev = adj_push(S.adj_rev, edge.to_node, e_idx)]

\* ingest_edges_batch after try_for_each: commit on Ok, return early on Err.
ingest_edges_batch_end(S, failed) ==
    IF failed THEN S ELSE [S EXCEPT !.edge_committed = S.edge_head]

-----------------------------------------------------------------------------
(* Set: the traversals and the pipeline executor. *)

SetMin(s) == CHOOSE x \in s : \A y \in s : x <= y

\* The inner loops of bfs_forward (dir = "fwd", over adj_fwd, to to_node) and
\* bfs_backward (dir = "rev", over adj_rev, to from_node): the frontier is
\* visited in ascending order and visited grows while it is scanned.
RECURSIVE ScanFrontier(_, _, _, _, _, _)
ScanFrontier(S, dir, type_hash, todo, visited, next_frontier) ==
    IF todo = {} THEN [visited |-> visited, next_frontier |-> next_frontier]
    ELSE LET idx == SetMin(todo)
             seen == visited \cup {idx}
             adj == IF dir = "fwd" THEN S.adj_fwd ELSE S.adj_rev
             edge_indices == IF idx \in DOMAIN adj THEN adj[idx] ELSE <<>>
             far(edge) == IF dir = "fwd" THEN edge.to_node ELSE edge.from_node
             found == {far(read_edge(S, edge_indices[k])) :
                         k \in {n \in 1..Len(edge_indices) :
                                  LET edge == read_edge(S, edge_indices[n]) IN
                                  /\ edge.edge_type_hash = type_hash
                                  /\ edge.flags # 0
                                  /\ far(edge) \notin seen}}
         IN  ScanFrontier(S, dir, type_hash, todo \ {idx}, seen, next_frontier \cup found)

\* BfsLoop leaving the loop after its first pass, whatever max_hops is.
BfsLoopOnePass(S, dir, type_hash, hops_left, visited, frontier) ==
    IF hops_left = 0 \/ frontier = {} THEN visited \cup frontier
    ELSE LET r == ScanFrontier(S, dir, type_hash, frontier, visited, {})
         IN  r.visited \cup r.next_frontier

\* for _ in 0..max_hops { if frontier.is_empty() { break } ... }; visited |= frontier
RECURSIVE BfsLoop(_, _, _, _, _, _)
BfsLoop(S, dir, type_hash, hops_left, visited, frontier) ==
    IF hops_left = 0 \/ frontier = {} THEN visited \cup frontier
    ELSE LET r == ScanFrontier(S, dir, type_hash, frontier, visited, {})
         IN  BfsLoop(S, dir, type_hash, hops_left - 1, r.visited, r.next_frontier)

\* candidates is None or Some(bitmap); None is the empty frontier.
bfs_forward(S, cands, type_hash, max_hops) ==
    BfsLoop(S, "fwd", type_hash, max_hops, {}, IF IsSome(cands) THEN Unwrap(cands) ELSE {})

bfs_backward(S, cands, type_hash, max_hops) ==
    BfsLoop(S, "rev", type_hash, max_hops, {}, IF IsSome(cands) THEN Unwrap(cands) ELSE {})

\* A step of a pipeline is [op, arg]: arg is the hash of One, Collection,
\* Forward and Backward, the number of Hops and Take, and 0 for All.
StepOf(op, arg) == [op |-> op, arg |-> arg]

\* The steps that carry more than a number: Many its slug hashes, WhereEq
\* and WhereIn a field and JSON values, the set operations a step list.
ManyOf(hashes) == [op |-> "Many", arg |-> 0, hashes |-> hashes]
WhereEqOf(field, value) == [op |-> "WhereEq", arg |-> 0, field |-> field, value |-> value]
WhereInOf(field, values) == [op |-> "WhereIn", arg |-> 0, field |-> field, values |-> values]
SetOpOf(op, other) == [op |-> op, arg |-> 0, other |-> other]

\* bm.iter().take(n): the n smallest members.
RECURSIVE TakeFirst(_, _)
TakeFirst(bm, n) ==
    IF n = 0 \/ bm = {} THEN {}
    ELSE {SetMin(bm)} \cup TakeFirst(bm \ {SetMin(bm)}, n - 1)

\* The payload scan of a filter arm: the candidates that are active and
\* whose parsed payload has the field with one of the values.
payload_scan(S, bm, field, values) ==
    {idx \in bm :
        /\ read_node(S, idx).flags # 0
        /\ LET found == json_get(blob_read(S, read_node(S, idx).blob_offset), field)
           IN  IsSome(found) /\ Unwrap(found) \in values}

\* Step::WhereEq with a hash index on the field, but the hits replace the
\* candidates instead of narrowing them.
step_where_eq_replacing(S, cands, field, value) ==
    IF field \in DOMAIN S.field_hash_indexes
    THEN Some(Range(lookup_eq(S.field_hash_indexes[field], value)))
    ELSE IF IsSome(cands)
         THEN Some(payload_scan(S, Unwrap(cands), field, {value}))
         ELSE cands

\* Step::WhereEq: the hash index of the field when there is one, else a
\* payload scan of the candidates when there are candidates.
step_where_eq(S, cands, field, value) ==
    IF field \in DOMAIN S.field_hash_indexes
    THEN LET hits == Range(lookup_eq(S.field_hash_indexes[field], value))
         IN  IF IsSome(cands) THEN Some(Unwrap(cands) \cap hits) ELSE Some(hits)
    ELSE IF IsSome(cands)
         THEN Some(payload_scan(S, Unwrap(cands), field, {value}))
         ELSE cands

\* Step::WhereIn: a payload scan of the candidates when there are candidates.
step_where_in(S, cands, field, values) ==
    IF IsSome(cands)
    THEN Some(payload_scan(S, Unwrap(cands), field, values))
    ELSE cands

\* Step::Intersect and Step::Union on the bitmap of the other pipeline.
step_intersect(cands, other_bm) ==
    IF IsSome(cands) THEN Some(Unwrap(cands) \cap other_bm) ELSE Some(other_bm)

step_union(cands, other_bm) ==
    IF IsSome(cands) THEN Some(Unwrap(cands) \cup other_bm) ELSE Some(other_bm)

\* Step::Subtract, but every candidate is kept.
step_subtract_keeping(cands, other_bm) == cands

\* Step::Subtract: the candidates the other bitmap does not contain.
step_subtract(cands, other_bm) ==
    IF IsSome(cands)
    THEN Some({idx \in Unwrap(cands) : idx \notin other_bm})
    ELSE cands

RECURSIVE exec_step(_, _, _)
RECURSIVE execute_pipeline(_, _)

\* One arm of the match in execute_pipeline.  st is the loop's state:
\* candidates and pending_hops; ran is the hop count a traversal arm used.
exec_step(S, st, step) ==
    LET hops == IF IsSome(st.pending_hops) THEN Unwrap(st.pending_hops) ELSE 1 IN
    CASE step.op = "One" ->
            LET idx == get(S.slug_index, step.arg) IN
            [candidates |-> Some(IF IsSome(idx) THEN {Unwrap(idx)} ELSE {}),
             pending_hops |-> st.pending_hops, ran |-> None]
      [] step.op = "Many" ->
            [candidates |-> Some({Unwrap(get(S.slug_index, step.hashes[i])) :
                                    i \in {j \in 1..Len(step.hashes) :
                                            IsSome(get(S.slug_index, step.hashes[j]))}}),
             pending_hops |-> st.pending_hops, ran |-> None]
      [] step.op = "WhereEq" ->
            [candidates |-> step_where_eq(S, st.candidates, step.field, step.value),
             pending_hops |-> st.pending_hops, ran |-> None]
      [] step.op = "WhereIn" ->
            [candidates |-> step_where_in(S, st.candidates, step.field, step.values),
             pending_hops |-> st.pending_hops, ran |-> None]
      [] step.op = "Intersect" ->
            [candidates |-> step_intersect(st.candidates, execute_pipeline(S, step.other)),
             pending_hops |-> st.pending_hops, ran |-> None]
      [] step.op = "Union" ->
            [candidates |-> step_union(st.candidates, execute_pipeline(S, step.other)),
             pending_hops |-> st.pending_hops, ran |-> None]
      [] step.op = "Subtract" ->
            [candidates |-> step_subtract(st.candidates, execute_pipeline(S, step.other)),
             pending_hops |-> st.pending_hops, ran |-> None]
      [] step.op = "Collection" ->
            LET bm == get_snapshot(S, step.arg) IN
            [candidates |-> IF IsSome(st.candidates)
                            THEN Some(Unwrap(st.candidates) \cap bm) ELSE Some(bm),
             pending_hops |-> st.pending_hops, ran |-> None]
      [] step.op = "All" ->
            [candidates |-> Some({i \in 0..(S.node_head - 1) : read_node(S, i).flags # 0}),
             pending_hops |-> st.pending_hops, ran |-> None]
      [] step.op = "Forward" ->
            [candidates |-> Some(bfs_forward(S, st.candidates, step.arg, hops)),
             pending_hops |-> None, ran |-> Some(hops)]
      [] step.op = "Backward" ->
            [candidates |-> Some(bfs_backward(S, st.candidates, step.arg, hops)),
             pending_hops |-> None, ran |-> Some(hops)]
      [] step.op = "Hops" ->
            [candidates |-> st.candidates, pending_hops |-> Some(step.arg), ran |-> None]
      [] step.op = "Take" ->
            [candidates |-> IF IsSome(st.candidates)
                            THEN Some(TakeFirst(Unwrap(st.candidates), step.arg))
                            ELSE None,
             pending_hops |-> st.pending_hops, ran |-> None]

\* execute_pipeline: the loop over the steps; the bitmap it returns.
RECURSIVE RunSteps(_, _, _, _)
RunSteps(S, st, list, i) ==
    IF i > Len(list) THEN st
    ELSE RunSteps(S, exec_step(S, st, list[i]), list, i + 1)

execute_pipeline(S, list) ==
    LET st == RunSteps(S, [candidates |-> None, pending_hops |-> None], list, 1)
    IN  IF IsSome(st.candidates) THEN Unwrap(st.candidates) ELSE {}

-----------------------------------------------------------------------------
(* collect: the terminal that resolves the bitmap to hits, sorts them,     *)
(* skips and projects.                                                     *)

resolve_single_hit(S, idx) ==
    LET slot == read_node(S, idx) IN
    [idx |-> idx, slug_hash |-> slot.slug_hash, collection_hash |-> slot.collection_hash,
     payload |-> Some(blob_read(S, slot.blob_offset))]

\* bitmap.iter().map(resolve_single_hit): ascending node index.
RECURSIVE resolve_hits(_, _)
resolve_hits(S, bitmap) ==
    IF bitmap = {} THEN <<>>
    ELSE <<resolve_single_hit(S, SetMin(bitmap))>>
            \o resolve_hits(S, bitmap \ {SetMin(bitmap)})

\* enum SortKey
SortNum(n) == [kind |-> "Num", num |-> n, str |-> ""]
SortStr(t) == [kind |-> "Str", num |-> 0, str |-> t]
SortNull == [kind |-> "Null", num |-> 0, str |-> ""]

extract_sort_key(hit, field) ==
    IF ~IsSome(hit.payload) THEN SortNull
    ELSE LET val == json_get(Unwrap(hit.payload), field) IN
         IF ~IsSome(val) THEN SortNull
         ELSE IF Unwrap(val).kind = "Number" THEN SortNum(Unwrap(val).num)
         ELSE IF Unwrap(val).kind = "String" THEN SortStr(Unwrap(val).str)
         ELSE SortNull

\* str::cmp on the strings of the model, which are single letters.
StrOrder == <<"a", "b">>
str_cmp(a, b) ==
    IF a = b THEN "Equal"
    ELSE IF position(StrOrder, a) < position(StrOrder, b) THEN "Less" ELSE "Greater"

cmp_key(self, other) ==
    CASE self.kind = "Num" /\ other.kind = "Num" ->
            IF self.num < other.num THEN "Less"
            ELSE IF self.num = other.num THEN "Equal" ELSE "Greater"
      [] self.kind = "Str" /\ other.kind = "Str" -> str_cmp(self.str, other.str)
      [] self.kind = "Null" /\ other.kind = "Null" -> "Equal"
      [] self.kind = "Null" /\ other.kind # "Null" -> "Greater"
      [] self.kind # "Null" /\ other.kind = "Null" -> "Less"
      [] self.kind = "Num" /\ other.kind = "Str" -> "Less"
      [] self.kind = "Str" /\ other.kind = "Num" -> "Greater"

\* Ordering::reverse
reverse(cmp) == CASE cmp = "Less" -> "Greater" [] cmp = "Greater" -> "Less" [] OTHER -> cmp

\* The comparator collect hands to sort_unstable_by.
sort_cmp(a, b, field, ascending) ==
    LET cmp == cmp_key(extract_sort_key(a, field), extract_sort_key(b, field))
    IN  IF ascending THEN cmp ELSE reverse(cmp)

\* The orders sort_unstable_by may leave: the hits in any order the
\* comparator does not contradict; hits that compare Equal come in any order.
sort_unstable_by(hits, field, ascending) ==
    {L \in {[i \in 1..Len(hits) |-> hits[p[i]]] : p \in Permutations(1..Len(hits))} :
        \A i \in 1..Len(L), j \in 1..Len(L) :
            i < j => sort_cmp(L[i], L[j], field, ascending) # "Greater"}

\* hits.drain(..skip_n.min(hits.len()))
drain(hits, skip) ==
    SubSeq(hits, (IF skip < Len(hits) THEN skip ELSE Len(hits)) + 1, Len(hits))

project_fields(payload, fields) ==
    [f \in (DOMAIN payload) \cap fields |-> payload[f]]

project_hits(hits, fields) ==
    IF IsSome(fields)
    THEN [i \in 1..Len(hits) |->
            [hits[i] EXCEPT !.payload = Some(project_fields(Unwrap(@), Unwrap(fields)))]]
    ELSE hits

\* collect after resolve_hits, but the hits are skipped before they are sorted.
collect_data_skip_first(hits, by, skip, fields) ==
    LET skipped == IF skip > 0 THEN drain(hits, skip) ELSE hits
        sorted == IF IsSome(by)
                  THEN sort_unstable_by(skipped, Unwrap(by)[1], Unwrap(by)[2])
                  ELSE {skipped}
    IN  {project_hits(L, fields) : L \in sorted}

\* collect after resolve_hits: sort, skip, select.  The set of the data it
\* may return, one for each order the unstable sort may leave.
collect_data(hits, by, skip, fields) ==
    LET sorted == IF IsSome(by)
                  THEN sort_unstable_by(hits, Unwrap(by)[1], Unwrap(by)[2])
                  ELSE {hits}
    IN  {project_hits(IF skip > 0 THEN drain(L, skip) ELSE L, fields) : L \in sorted}

-----------------------------------------------------------------------------
(* The store the variables hold, and the step that installs a new one. *)

Cur ==
    [nodes |-> nodes, node_head |-> node_head, node_committed |-> node_committed,
     blobs |-> blobs, blob_offset |-> blob_offset, blob_committed |-> blob_committed,
     slug_index |-> slug_index,
     bitmaps |-> bitmaps, dirty |-> dirty, rbm_files |-> rbm_files,
     collection_counts |-> collection_counts,
     edges |-> edges, edge_head |-> edge_head, edge_committed |-> edge_committed,
     adj_fwd |-> adj_fwd, adj_rev |-> adj_rev,
     field_hash_indexes |-> field_hash_indexes]

Install(S) ==
    /\ nodes' = S.nodes /\ node_head' = S.node_head /\ node_committed' = S.node_committed
    /\ blobs' = S.blobs /\ blob_offset' = S.blob_offset /\ blob_committed' = S.blob_committed
    /\ slug_index' = S.slug_index
    /\ bitmaps' = S.bitmaps /\ dirty' = S.dirty /\ rbm_files' = S.rbm_files
    /\ collection_counts' = S.collection_counts
    /\ edges' = S.edges /\ edge_head' = S.edge_head /\ edge_committed' = S.edge_committed
    /\ adj_fwd' = S.adj_fwd /\ adj_rev' = S.adj_rev
    /\ field_hash_indexes' = S.field_hash_indexes

StoreIs(S) ==
    /\ nodes = S.nodes /\ node_head = S.node_head /\ node_committed = S.node_committed
    /\ blobs = S.blobs /\ blob_offset = S.blob_offset /\ blob_committed = S.blob_committed
    /\ slug_index = S.slug_index
    /\ bitmaps = S.bitmaps /\ dirty = S.dirty /\ rbm_files = S.rbm_files
    /\ collection_counts = S.collection_counts
    /\ edges = S.edges /\ edge_head = S.edge_head /\ edge_committed = S.edge_committed
    /\ adj_fwd = S.adj_fwd /\ adj_rev = S.adj_rev
    /\ field_hash_indexes = S.field_hash_indexes

NoBatch == [active |-> FALSE]
\* No thread inside a write or an insert, an HNSW index just built over an empty
\* vector arena, and a FastVersionTracker just built.
NoWriters ==
    /\ writers = <<>> /\ leaked = {} /\ failed_writes = {} /\ op_result = None
NoAnn ==
    /\ graph = [nodes |-> <<>>, entry_point |-> None]
    /\ storage = <<>> /\ inserts = <<>>
    /\ search_out = None /\ insert_log = <<>>
NoTxn ==
    /\ tracker = [current |-> 0, active |-> {}, next_txn_id |-> 1]
    /\ txns = <<>> /\ snapshots = {}
NoAux ==
    /\ restored = None /\ bfs_out = None /\ parsed = None
    /\ wal = <<>> /\ wal_calls = <<>> /\ hidx = <<>> /\ hidx_calls = <<>>
NoExt == NoWriters /\ NoAnn /\ NoTxn /\ NoAux
\* A Set as NodeStore hands it out, no terminal run, and an empty RangeIndex.
NoSet ==
    /\ sort_by = None /\ skip_n = 0 /\ select_fields = None
    /\ calls = <<>> /\ outcome = None
    /\ range_index = NewRangeIndex
    /\ NoExt

NoPipe ==
    /\ steps = <<>> /\ pc = 0 /\ candidates = None /\ pending_hops = None
    /\ hops_used = <<>>
    /\ NoSet

-----------------------------------------------------------------------------
(* Spec: one thread writing, deleting, flushing and reopening a store. *)

Init ==
    /\ StoreIs(EmptyStore)
    /\ kv = [s \in Slugs |-> None]
    /\ upserted = {}
    /\ batch = NoBatch
    /\ NoPipe

\* nodes().put(slug, json)
WriteOp(slug, value) ==
    /\ batch = NoBatch
    /\ Install(write_with_value(Cur, slug, value))
    /\ kv' = [kv EXCEPT ![slug] = Some(InjectId(value, slug))]
    /\ upserted' = IF IsSome(kv[slug]) THEN upserted \cup {slug} ELSE upserted \ {slug}
    /\ UNCHANGED <<batch, pipeVars>>

\* nodes().remove(slug)
DeleteOp(slug) ==
    /\ batch = NoBatch
    /\ Install(delete_internal(Cur, slug))
    /\ kv' = [kv EXCEPT ![slug] = None]
    /\ upserted' = upserted \ {slug}
    /\ UNCHANGED <<batch, pipeVars>>

Write == \E slug \in StoreSlugs, value \in {Payload(node_head + 1)} :
            node_head < MaxNodes /\ WriteOp(slug, value)

Delete == \E slug \in StoreSlugs : IsSome(kv[slug]) /\ DeleteOp(slug)

\* db.flush()
Flush ==
    /\ batch = NoBatch
    /\ Install(flush(Cur))
    /\ UNCHANGED <<histVars, batch, pipeVars>>

\* drop(db); SekejapDB::new(path, count).  upserted follows one open store.
Reopen ==
    /\ batch = NoBatch
    /\ Install(new(Cur))
    /\ upserted' = {}
    /\ UNCHANGED <<kv, batch, pipeVars>>

\* nodes().collection(name): get_snapshot caches the bitmap it loads from disk
CollectionQuery ==
    /\ batch = NoBatch
    /\ \E name \in Collections : Install(get_snapshot_load(Cur, seahash(name)))
    /\ UNCHANGED <<histVars, batch, pipeVars>>

Next == Write \/ Delete \/ Flush \/ Reopen \/ CollectionQuery

Spec == Init /\ [][Next]_vars

-----------------------------------------------------------------------------
(* SpecGraph: linking, unlinking and batch edge ingest over three nodes.   *)
(* ingest_edges_batch runs add_edge_deferred on rayon workers, one per     *)
(* item; a worker takes two steps, so that reservations and adjacency      *)
(* pushes of different workers interleave.                                 *)

GraphSlugs == {"u/a", "u/b", "p/c"}

RECURSIVE WriteAll(_, _, _)
WriteAll(S, slugs, i) ==
    IF i > Len(slugs) THEN S
    ELSE WriteAll(write_with_value(S, slugs[i], Payload(i)), slugs, i + 1)

GraphStore == WriteAll(EmptyStore, <<"u/a", "u/b", "p/c">>, 1)

InitGraph ==
    /\ StoreIs(GraphStore)
    /\ kv = [s \in Slugs |-> read_internal(GraphStore, s)]
    /\ upserted = {}
    /\ batch = NoBatch
    /\ NoPipe

\* edges().link(src, dst, type)
Link ==
    /\ batch = NoBatch
    /\ edge_head < MaxEdges
    /\ \E src \in GraphSlugs, dst \in GraphSlugs, t \in EdgeTypes :
          Install(add_edge_internal(Cur, src, dst, t).store)
    /\ UNCHANGED <<histVars, batch, pipeVars>>

\* edges().unlink(src, dst, type)
Unlink ==
    /\ batch = NoBatch
    /\ \E src \in GraphSlugs, dst \in GraphSlugs, t \in EdgeTypes :
          Install(delete_edge_internal(Cur, src, dst, t).store)
    /\ UNCHANGED <<histVars, batch, pipeVars>>

\* The batches offered to edges().ingest: the last item names a slug that
\* was never written, so its worker fails.
BatchItems == <<<<"u/a", "u/b", "next">>, <<"u/a", "p/c", "next">>, <<"u/a", "u/d", "next">>>>
BatchSize == 2       \* items of one batch

\* The item positions of a batch: BatchSize of the items, in list order.
Batches ==
    {b \in [1..BatchSize -> 1..Len(BatchItems)] :
        \A i \in 1..BatchSize, j \in 1..BatchSize : i < j => b[i] < b[j]}

BatchStart ==
    /\ batch = NoBatch
    /\ edge_head + BatchSize <= MaxEdges
    /\ \E b \in Batches :
          batch' = [active |-> TRUE,
                    items |-> [k \in 1..BatchSize |-> BatchItems[b[k]]],
                    state |-> [k \in 1..BatchSize |-> "idle"],
                    e_idx |-> [k \in 1..BatchSize |-> 0],
                    failed |-> FALSE]
    /\ UNCHANGED <<storeVars, histVars, pipeVars>>

\* A worker resolves its item, reserves an edge slot and writes it.
WorkerWrite ==
    /\ batch.active
    /\ \E k \in 1..BatchSize :
          /\ batch.state[k] = "idle"
          /\ LET item == batch.items[k]
                 r == add_edge_deferred_write(Cur, item[1], item[2], item[3])
             IN  /\ Install(r.store)
                 /\ batch' = IF r.ok
                             THEN [batch EXCEPT !.state[k] = "written", !.e_idx[k] = r.e_idx]
                             ELSE [batch EXCEPT !.state[k] = "done", !.failed = TRUE]
    /\ UNCHANGED <<histVars, pipeVars>>

\* A worker pushes its edge onto both adjacency lists.
WorkerPush ==
    /\ batch.active
    /\ \E k \in 1..BatchSize :
          /\ batch.state[k] = "written"
          /\ Install(add_edge_deferred_push(Cur, batch.e_idx[k]))
          /\ batch' = [batch EXCEPT !.state[k] = "done"]
    /\ UNCHANGED <<histVars, pipeVars>>

\* try_for_each stops handing out items once one has failed.
WorkerSkip ==
    /\ batch.active
    /\ batch.failed
    /\ \E k \in 1..BatchSize :
          /\ batch.state[k] = "idle"
          /\ batch' = [batch EXCEPT !.state[k] = "done"]
    /\ UNCHANGED <<storeVars, histVars, pipeVars>>

BatchEnd ==
    /\ batch.active
    /\ \A k \in 1..BatchSize : batch.state[k] = "done"
    /\ Install(ingest_edges_batch_end(Cur, batch.failed))
    /\ batch' = NoBatch
    /\ UNCHANGED <<histVars, pipeVars>>

NextGraph ==
    \/ Link \/ Unlink
    \/ BatchStart \/ WorkerWrite \/ WorkerPush \/ WorkerSkip \/ BatchEnd
    \/ Reopen

SpecGraph == InitGraph /\ [][NextGraph]_vars

-----------------------------------------------------------------------------
(* SpecBfs: the sequential and the parallel traversals run on the graphs   *)
(* that link and unlink build over three nodes.                            *)

\* The far ends of the edges the adjacency list of idx names.
far_ends(S, dir, idx) ==
    {[edge |-> read_edge(S, e),
      far |-> IF dir = "fwd" THEN read_edge(S, e).to_node ELSE read_edge(S, e).from_node] :
        e \in IF dir = "fwd"
              THEN (IF idx \in DOMAIN S.adj_fwd THEN Range(S.adj_fwd[idx]) ELSE {})
              ELSE (IF idx \in DOMAIN S.adj_rev THEN Range(S.adj_rev[idx]) ELSE {})}

\* The parallel expansion taking the edges of every type.
bfs_expand_any_type(S, dir, type_hash, frontier) ==
    UNION {{x.far : x \in {y \in far_ends(S, dir, idx) : y.edge.flags # 0}} :
              idx \in frontier}

\* frontier_vec.into_par_iter().for_each: every node of the frontier inserts
\* the far end of each of its active edges of the type into next_frontier,
\* under the mutex; the inserts commute.
bfs_expand(S, dir, type_hash, frontier) ==
    UNION {{x.far : x \in {y \in far_ends(S, dir, idx) :
                              y.edge.edge_type_hash = type_hash /\ y.edge.flags # 0}} :
              idx \in frontier}

\* The loop of bfs_forward_parallel and bfs_backward_parallel: visited |=
\* visited_local; frontier = next_frontier - visited
RECURSIVE BfsLoopParallel(_, _, _, _, _, _)
BfsLoopParallel(S, dir, type_hash, hops_left, visited, frontier) ==
    IF hops_left = 0 \/ frontier = {} THEN visited \cup frontier
    ELSE BfsLoopParallel(S, dir, type_hash, hops_left - 1, visited \cup frontier,
                         bfs_expand(S, dir, type_hash, frontier) \ (visited \cup frontier))

bfs_forward_parallel(S, cands, type_hash, max_hops) ==
    BfsLoopParallel(S, "fwd", type_hash, max_hops, {},
                    IF IsSome(cands) THEN Unwrap(cands) ELSE {})

bfs_backward_parallel(S, cands, type_hash, max_hops) ==
    BfsLoopParallel(S, "rev", type_hash, max_hops, {},
                    IF IsSome(cands) THEN Unwrap(cands) ELSE {})

InitBfs == InitGraph

\* Step::Forward, Step::ForwardParallel, Step::Backward and
\* Step::BackwardParallel run on the same candidates
Traverse == \E frontier \in SUBSET (0..2), t \in {"next"}, max_hops \in 0..MaxHops :
    /\ bfs_out = None
    /\ bfs_out' = Some([frontier |-> frontier, type_hash |-> seahash(t),
                        max_hops |-> max_hops,
                        forward |-> bfs_forward(Cur, Some(frontier), seahash(t), max_hops),
                        forward_parallel |->
                            bfs_forward_parallel(Cur, Some(frontier), seahash(t), max_hops),
                        backward |-> bfs_backward(Cur, Some(frontier), seahash(t), max_hops),
                        backward_parallel |->
                            bfs_backward_parallel(Cur, Some(frontier), seahash(t), max_hops)])
    /\ UNCHANGED <<storeVars, histVars, batch, steps, pc, candidates, pending_hops, hops_used,
                   setVars, range_index, writeVars, annVars, txnVars,
                   restored, wal, wal_calls, hidx, hidx_calls, parsed>>

NextBfs == (bfs_out = None /\ Link) \/ (bfs_out = None /\ Unlink) \/ Traverse

SpecBfs == InitBfs /\ [][NextBfs]_vars

-----------------------------------------------------------------------------
(* SpecCapacity: a store opened with SekejapDB::new(path, NodeCapacity).   *)
(* The node arena maps NodeCapacity slots and the edge arena three times   *)
(* as many.  write_at copies the slot to 64 + idx * slot_size without      *)
(* looking at the length of the mapping; past the end the copy either      *)
(* lands behind the mapping or the process is killed, and the directory is *)
(* opened again.                                                           *)

NodeCapacity == 1   \* count given to SekejapDB::new
MaxOverrun == 1     \* slots reserved past the capacity of an arena
EdgeCapacity == NodeCapacity * 3
CapacitySlugs == {"u/a", "u/b"}

InitCapacity == Init

\* nodes().put(slug, json); past the capacity the copy lands
CapWrite == \E slug \in CapacitySlugs, value \in {Payload(node_head + 1)} :
    /\ node_head < NodeCapacity + MaxOverrun
    /\ WriteOp(slug, value)

\* edges().link(src, dst, type); past the capacity the copy lands
CapLink == \E src \in CapacitySlugs, dst \in CapacitySlugs, t \in EdgeTypes :
    /\ batch = NoBatch
    /\ edge_head < EdgeCapacity + MaxOverrun
    /\ add_edge_internal(Cur, src, dst, t).ok
    /\ Install(add_edge_internal(Cur, src, dst, t).store)
    /\ UNCHANGED <<histVars, batch, pipeVars>>

\* a put or a link past the capacity: the copy faults, the process dies
\* inside write_at and the directory is opened again
CapFault ==
    /\ node_head >= NodeCapacity \/ (edge_head >= EdgeCapacity /\ node_head > 0)
    /\ Reopen

NextCapacity == CapWrite \/ CapLink \/ CapFault

SpecCapacity == InitCapacity /\ [][NextCapacity]_vars

-----------------------------------------------------------------------------
(* The chain a -> b -> c -> d of edges of type "next".                     *)

ChainSlugs == <<"u/a", "u/b", "p/c", "u/d">>

RECURSIVE LinkChain(_, _, _)
LinkChain(S, slugs, i) ==
    IF i >= Len(slugs) THEN S
    ELSE LinkChain(add_edge_internal(S, slugs[i], slugs[i + 1], "next").store, slugs, i + 1)

ChainStore == LinkChain(WriteAll(EmptyStore, ChainSlugs, 1), ChainSlugs, 1)

InitChain ==
    /\ StoreIs(ChainStore)
    /\ kv = [s \in Slugs |-> read_internal(ChainStore, s)]
    /\ upserted = {}
    /\ batch = NoBatch

(* SpecTomb: nodes of the chain are deleted, the store flushed, reopened   *)
(* and queried.                                                            *)

InitTomb == InitChain /\ NoPipe

NextTomb == Delete \/ Flush \/ Reopen \/ CollectionQuery

SpecTomb == InitTomb /\ [][NextTomb]_vars

-----------------------------------------------------------------------------
(* SpecPipe: execute_pipeline runs one pipeline over the chain, one step   *)
(* of the list per action.                                                 *)

MaxSteps == 4       \* longest step list

Starters ==
    {StepOf("One", seahash("u/a")), StepOf("One", seahash("u/d")),
     StepOf("Collection", seahash("u")), StepOf("All", 0)}

Transforms ==
    {StepOf("Forward", seahash("next")), StepOf("Backward", seahash("next")),
     StepOf("Take", 2)}
    \cup {StepOf("Hops", n) : n \in 1..MaxHops}

\* A starter, then up to MaxSteps - 1 transforms, as the Set builder pushes them.
Pipelines ==
    UNION {{<<s>> \o t : s \in Starters, t \in [1..n -> Transforms]} : n \in 0..(MaxSteps - 1)}

InitPipe ==
    /\ InitChain
    /\ steps \in Pipelines
    /\ pc = 0
    /\ candidates = None
    /\ pending_hops = None
    /\ hops_used = <<>>
    /\ NoSet

\* The loop body of execute_pipeline on the step at pc, when its arm is op.
Exec(op) ==
    /\ pc < Len(steps)
    /\ steps[pc + 1].op = op
    /\ LET step == steps[pc + 1]
           r == exec_step(Cur, [candidates |-> candidates, pending_hops |-> pending_hops], step)
       IN  /\ candidates' = r.candidates
           /\ pending_hops' = r.pending_hops
           /\ hops_used' = IF IsSome(r.ran)
                           THEN Append(hops_used, <<pc + 1, Unwrap(r.ran)>>)
                           ELSE hops_used
           /\ IF op = "Collection"
              THEN Install(get_snapshot_load(Cur, step.arg))
              ELSE UNCHANGED storeVars
    /\ pc' = pc + 1
    /\ UNCHANGED <<extVars, steps, histVars, batch, setVars, range_index>>

StepOne == Exec("One")
StepCollection == Exec("Collection")
StepAll == Exec("All")
StepForward == Exec("Forward")
StepBackward == Exec("Backward")
StepHops == Exec("Hops")
StepTake == Exec("Take")

NextPipe ==
    \/ StepOne \/ StepCollection \/ StepAll
    \/ StepForward \/ StepBackward \/ StepHops \/ StepTake

SpecPipe == InitPipe /\ [][NextPipe]_vars

-----------------------------------------------------------------------------
(* SpecQuery: query_json runs a parsed step list, in which any step may    *)
(* stand at any place, over four nodes whose status fields hold a string,  *)
(* a number, a boolean and null.  The hash index on status is defined      *)
(* before the nodes are written, or after, or not at all.                  *)

MaxQuery == 3       \* longest step list of a query

QuerySlugs == <<"u/a", "u/b", "p/c", "u/d">>
QueryValues == <<JString("1"), JNumber(1), JBool(FALSE), JNull>>

RECURSIVE PutAll(_, _, _)
PutAll(S, slugs, i) ==
    IF i > Len(slugs) THEN S
    ELSE PutAll(write_with_value(S, slugs[i], [val |-> i, status |-> QueryValues[i]]),
                slugs, i + 1)

ScanStore == PutAll(EmptyStore, QuerySlugs, 1)
IndexedStore == PutAll(define_collection_internal(EmptyStore, {"status"}), QuerySlugs, 1)
LateIndexStore == define_collection_internal(ScanStore, {"status"})
QueryStores == {ScanStore, IndexedStore, LateIndexStore}

QStarters ==
    {StepOf("One", seahash("u/a")), ManyOf(<<seahash("u/a"), seahash("p/c")>>),
     StepOf("Collection", seahash("u")), StepOf("All", 0)}

QFilters ==
    {WhereEqOf("status", v) : v \in Range(QueryValues)}
    \cup {WhereInOf("status", {JString("1"), JBool(FALSE)})}

\* The pipelines a set operation is given: built by the Set builder.
SubPipelines ==
    {<<st>> : st \in QStarters} \cup {<<StepOf("All", 0), WhereEqOf("status", JNull)>>}

QSetOps == {SetOpOf(op, other) : op \in {"Intersect", "Union", "Subtract"},
                                 other \in SubPipelines}

QuerySteps == QStarters \cup QFilters \cup QSetOps \cup {StepOf("Take", 1)}

QueryPipelines == UNION {[1..n -> QuerySteps] : n \in 0..MaxQuery}

InitQuery ==
    /\ \E S \in QueryStores :
          /\ StoreIs(S)
          /\ kv = [s \in Slugs |-> read_internal(S, s)]
    /\ upserted = {}
    /\ batch = NoBatch
    /\ steps \in QueryPipelines
    /\ pc = 0
    /\ candidates = None
    /\ pending_hops = None
    /\ hops_used = <<>>
    /\ NoSet

StepMany == Exec("Many")
StepWhereEq == Exec("WhereEq")
StepWhereIn == Exec("WhereIn")
StepIntersect == Exec("Intersect")
StepUnion == Exec("Union")
StepSubtract == Exec("Subtract")

NextQuery ==
    \/ StepOne \/ StepMany \/ StepCollection \/ StepAll
    \/ StepWhereEq \/ StepWhereIn
    \/ StepIntersect \/ StepUnion \/ StepSubtract \/ StepTake

SpecQuery == InitQuery /\ [][NextQuery]_vars

-----------------------------------------------------------------------------
(* SpecCollect: take, sort, skip and select are called on a Set in any     *)
(* order, each at most once, and collect runs it.  Two nodes hold a number *)
(* in score, one holds null, and one has no score.                         *)

MaxTake == 3        \* largest argument of take
MaxSkip == 2        \* largest argument of skip

CollectSlugs == <<"u/a", "u/b", "p/c", "u/d">>
CollectPayloads ==
    <<[name |-> JString("a"), score |-> JNumber(2)],
      [name |-> JString("b")],
      [name |-> JString("a"), score |-> JNumber(1)],
      [name |-> JString("b"), score |-> JNull]>>

RECURSIVE PutEach(_, _, _, _)
PutEach(S, slugs, payloads, i) ==
    IF i > Len(slugs) THEN S
    ELSE PutEach(write_with_value(S, slugs[i], payloads[i]), slugs, payloads, i + 1)

CollectStore == PutEach(EmptyStore, CollectSlugs, CollectPayloads, 1)

InitCollect ==
    /\ StoreIs(CollectStore)
    /\ kv = [s \in Slugs |-> read_internal(CollectStore, s)]
    /\ upserted = {}
    /\ batch = NoBatch
    /\ steps \in {<<StepOf("All", 0)>>, <<StepOf("Collection", seahash("u"))>>}
    /\ pc = 0
    /\ candidates = None
    /\ pending_hops = None
    /\ hops_used = <<>>
    /\ NoSet

\* A builder method is called on the Set before its terminal runs.
Called(name) ==
    /\ outcome = None
    /\ name \notin Range(calls)
    /\ calls' = Append(calls, name)
    /\ UNCHANGED <<extVars, storeVars, histVars, batch, pc, candidates, pending_hops, hops_used,
                   outcome, range_index>>

CallTake == \E n \in 1..MaxTake :
    /\ Called("take")
    /\ steps' = Append(steps, StepOf("Take", n))
    /\ UNCHANGED <<sort_by, skip_n, select_fields>>

CallSort == \E ascending \in BOOLEAN :
    /\ Called("sort")
    /\ sort_by' = Some(<<"score", ascending>>)
    /\ UNCHANGED <<steps, skip_n, select_fields>>

CallSkip == \E n \in 1..MaxSkip :
    /\ Called("skip")
    /\ skip_n' = n
    /\ UNCHANGED <<steps, sort_by, select_fields>>

CallSelect == \E fields \in {{"name"}, {"score"}} :
    /\ Called("select")
    /\ select_fields' = Some(fields)
    /\ UNCHANGED <<steps, sort_by, skip_n>>

\* collect(): the whole pipeline, then sort, skip and select on the hits
Collect ==
    /\ outcome = None
    /\ LET bitmap == execute_pipeline(Cur, steps)
           after == IF steps[1].op = "Collection"
                    THEN get_snapshot_load(Cur, steps[1].arg) ELSE Cur
       IN  /\ \E data \in collect_data(resolve_hits(Cur, bitmap), sort_by, skip_n,
                                       select_fields) :
                  outcome' = Some(data)
           /\ candidates' = Some(bitmap)
           /\ pc' = Len(steps)
           /\ Install(after)
    /\ UNCHANGED <<extVars, histVars, batch, steps, pending_hops, hops_used,
                   sort_by, skip_n, select_fields, calls, range_index>>

NextCollect == CallTake \/ CallSort \/ CallSkip \/ CallSelect \/ Collect

SpecCollect == InitCollect /\ [][NextCollect]_vars

-----------------------------------------------------------------------------
(* SpecRange: one thread inserts into, removes from and queries a          *)
(* RangeIndex.  candidates holds the nodes the last lookup_range returned. *)

MaxRangeNodes == 3  \* nodes the index is given
MaxRangeValue == 2  \* largest indexed value and largest bound of a lookup

RangeNodes == 0..(MaxRangeNodes - 1)
RangeValues == 1..MaxRangeValue

InitRange ==
    /\ StoreIs(EmptyStore)
    /\ kv = [s \in Slugs |-> None]
    /\ upserted = {}
    /\ batch = NoBatch
    /\ NoPipe

\* RangeIndex::insert(node_idx, value)
RangeInsertOp(node_idx, value) ==
    /\ IF IsSome(to_f64(value))
       THEN LET r1 == range_index_remove(range_index, node_idx)
                num == Unwrap(to_f64(value))
            IN  \E pos \in binary_search_by(r1.data, num) :
                    range_index' = range_index_insert_at(r1, node_idx, num, pos)
       ELSE UNCHANGED range_index
    /\ candidates' = None
    /\ UNCHANGED <<extVars, storeVars, histVars, batch, steps, pc, pending_hops, hops_used, setVars>>

RangeInsert == \E node_idx \in RangeNodes, num \in RangeValues :
                  RangeInsertOp(node_idx, JNumber(num))

\* RangeIndex::remove(node_idx)
RangeRemove == \E node_idx \in RangeNodes :
    /\ \E k \in 1..Len(range_index.reverse) : range_index.reverse[k][1] = node_idx
    /\ range_index' = range_index_remove(range_index, node_idx)
    /\ candidates' = None
    /\ UNCHANGED <<extVars, storeVars, histVars, batch, steps, pc, pending_hops, hops_used, setVars>>

\* RangeIndex::lookup_range(min, max), as where_between calls it
LookupRangeOp(min, max) ==
    /\ IsSome(to_f64(min)) /\ IsSome(to_f64(max))
    /\ \E start \in lower_bound(range_index.data, Unwrap(to_f64(min))) :
          candidates' = Some(Range(lookup_range(range_index, Unwrap(to_f64(min)),
                                                Unwrap(to_f64(max)), start)))
    /\ UNCHANGED <<extVars, storeVars, histVars, batch, steps, pc, pending_hops, hops_used,
                   setVars, range_index>>

LookupRange == \E lo \in RangeValues, hi \in RangeValues :
                  lo <= hi /\ LookupRangeOp(JNumber(lo), JNumber(hi))

NextRange == RangeInsert \/ RangeRemove \/ LookupRange

SpecRange == InitRange /\ [][NextRange]_vars

-----------------------------------------------------------------------------
(* SpecHash: one thread inserts into and removes from the Robin-Hood table *)
(* of the slug index.  The keys are the hashes of the four slugs, three of *)
(* them with one home slot; kv holds, per slug, the value of the last      *)
(* insert of its key, None when the key was removed since or never seen.   *)

MaxValue == 2       \* values 1..MaxValue are inserted
MaxSlot == 4        \* a run stops short of writing a slot beyond this one
MaxCount == 4       \* and short of a count above this one or below u64::MAX

InitHash ==
    /\ StoreIs(EmptyStore)
    /\ kv = [s \in Slugs |-> None]
    /\ upserted = {}
    /\ batch = NoBatch
    /\ NoPipe

\* slug_index.insert(key, value)
HashInsert == \E s \in Slugs, value \in 1..MaxValue :
    /\ slug_index' = insert(slug_index, seahash(s), value)
    /\ \A pos \in DOMAIN slug_index'.slots : pos <= MaxSlot
    /\ slug_index'.count <= MaxCount
    /\ kv' = [kv EXCEPT ![s] = Some(value)]
    /\ UNCHANGED <<nodes, node_head, node_committed, blobs, blob_offset, blob_committed,
                   bitmaps, dirty, rbm_files, collection_counts, edges, edge_head,
                   edge_committed, adj_fwd, adj_rev, field_hash_indexes,
                   upserted, batch, pipeVars>>

\* slug_index.remove(key)
HashRemove == \E s \in Slugs :
    /\ slug_index' = remove(slug_index, seahash(s))
    /\ slug_index'.count >= U64Max
    /\ kv' = [kv EXCEPT ![s] = None]
    /\ UNCHANGED <<nodes, node_head, node_committed, blobs, blob_offset, blob_committed,
                   bitmaps, dirty, rbm_files, collection_counts, edges, edge_head,
                   edge_committed, adj_fwd, adj_rev, field_hash_indexes,
                   upserted, batch, pipeVars>>

NextHash == HashInsert \/ HashRemove

SpecHash == InitHash /\ [][NextHash]_vars

-----------------------------------------------------------------------------
(* SpecWriters: threads inside write_with_value, one shared access per     *)
(* step, and the process crashing under them.  SekejapDB is Sync and put   *)
(* takes &self, so nothing serialises two writes; the slug index, the      *)
(* bitmaps, the counts and the field indexes each sit behind their own     *)
(* lock and are updated here in one step.  A payload with vectors.dense    *)
(* goes through insert_index when init_hnsw was called; insert_index       *)
(* unwinds out of update_neighbors when a neighbour it wires was           *)
(* registered again with fewer layers (SpecAnn reaches that state), and    *)
(* the write then ends at that line.                                       *)

MaxThreads == 2     \* threads that may be inside a write or an insert together
MaxWrites == 3      \* writes begun on one open store
MaxLeaks == 1       \* a crash needs fewer leaked slots than this before it

Threads == 1..MaxThreads
\* What an operation returned: Ok or Err, and the batch it was given.
Returned(ok, items) == Some([ok |-> ok, items |-> items])
\* Each thread writes a node of its own.
ThreadSlug(t) == IF t = 1 THEN "u/a" ELSE "u/b"

Reserved(w) == w.pc \in {"write_at", "hnsw", "index", "commit"}

InitWriters ==
    /\ StoreIs(EmptyStore)
    /\ kv = [s \in Slugs |-> None]
    /\ upserted = {}
    /\ batch = NoBatch
    /\ NoPipe

WriterStep(w2) ==
    /\ writers' = w2
    /\ UNCHANGED <<histVars, batch, steps, pc, candidates, pending_hops, hops_used,
                   setVars, range_index, annVars, txnVars, auxVars>>

\* nodes().put(slug, json) is called on thread t
WBegin == \E t \in Threads, vec_present \in BOOLEAN :
    /\ t \notin DOMAIN writers
    /\ node_head + Cardinality({u \in DOMAIN writers : ~Reserved(writers[u])}) < MaxWrites
    /\ WriterStep(Put(writers, t, [pc |-> "append", slug |-> ThreadSlug(t), value |-> Payload(t),
                                   vec_present |-> vec_present, b_off |-> 0, n_idx |-> 0]))
    /\ UNCHANGED <<storeVars, leaked, failed_writes, op_result>>

\* let (b_off, b_len) = self.blobs.append(final_raw.as_bytes());
WAppend == \E t \in DOMAIN writers :
    /\ writers[t].pc = "append"
    /\ Install(append(Cur, InjectId(writers[t].value, writers[t].slug)))
    /\ WriterStep([writers EXCEPT ![t].pc = "reserve", ![t].b_off = blob_offset])
    /\ UNCHANGED <<leaked, failed_writes, op_result>>

\* let n_idx = self.nodes.write_head.fetch_add(1, Ordering::Relaxed);
WReserve == \E t \in DOMAIN writers :
    /\ writers[t].pc = "reserve"
    /\ Install([Cur EXCEPT !.node_head = @ + 1])
    /\ WriterStep([writers EXCEPT ![t].pc = "write_at", ![t].n_idx = node_head])
    /\ UNCHANGED <<leaked, failed_writes, op_result>>

\* self.nodes.write_at(n_idx, &slot) with flags: 1
WWriteAt == \E t \in DOMAIN writers :
    /\ writers[t].pc = "write_at"
    /\ LET w == writers[t]
           ids == parse_entity_id(w.slug)
           slot == [slug_hash |-> ids[2], collection_hash |-> ids[1],
                    flags |-> 1, blob_offset |-> w.b_off]
       IN  Install([Cur EXCEPT !.nodes = write_at(nodes, w.n_idx, slot)])
    /\ WriterStep([writers EXCEPT ![t].pc = IF writers[t].vec_present THEN "hnsw" ELSE "index"])
    /\ UNCHANGED <<leaked, failed_writes, op_result>>

\* hnsw.insert_index(n_idx as u32, 32) returns
WHnswOk == \E t \in DOMAIN writers :
    /\ writers[t].pc = "hnsw"
    /\ WriterStep([writers EXCEPT ![t].pc = "index"])
    /\ UNCHANGED <<storeVars, leaked, failed_writes, op_result>>

\* hnsw.insert_index(n_idx as u32, 32) does not return: the write ends here
WHnswFail == \E t \in DOMAIN writers :
    /\ writers[t].pc = "hnsw"
    /\ WriterStep(Drop(writers, t))
    /\ failed_writes' = failed_writes \cup {writers[t].n_idx}
    /\ op_result' = Returned(FALSE, <<>>)
    /\ UNCHANGED <<storeVars, leaked>>

\* slug index, collection bitmap, collection count and hot fields
WIndex == \E t \in DOMAIN writers :
    /\ writers[t].pc = "index"
    /\ LET w == writers[t]
           ids == parse_entity_id(w.slug)
           S3 == [Cur EXCEPT !.slug_index = insert(slug_index, ids[2], w.n_idx)]
           S4 == count_add(bitmap_insert(S3, ids[1], w.n_idx), ids[1])
       IN  Install(index_hot_fields(S4, w.n_idx, w.value))
    /\ WriterStep([writers EXCEPT ![t].pc = "commit"])
    /\ UNCHANGED <<leaked, failed_writes, op_result>>

\* self.nodes.commit(n_idx + 1); self.blobs.commit(); Ok(n_idx as u32)
WCommit == \E t \in DOMAIN writers :
    /\ writers[t].pc = "commit"
    /\ Install([Cur EXCEPT !.node_committed = writers[t].n_idx + 1,
                           !.blob_committed = blob_offset])
    /\ WriterStep(Drop(writers, t))
    /\ op_result' = Returned(TRUE, <<>>)
    /\ UNCHANGED <<leaked, failed_writes>>

\* The process dies and the directory is opened again: the mapped files are
\* as they were, every thread is gone.
Crash ==
    /\ Cardinality(leaked) < MaxLeaks
    /\ Install(new(Cur))
    /\ WriterStep(<<>>)
    /\ leaked' = leaked \cup {writers[t].n_idx : t \in {u \in DOMAIN writers :
                                Reserved(writers[u]) /\ writers[u].n_idx >= node_committed}}
    /\ leaked' # leaked
    /\ op_result' = None
    /\ UNCHANGED failed_writes

NextWriters ==
    \/ WBegin \/ WAppend \/ WReserve \/ WWriteAt \/ WHnswOk \/ WHnswFail
    \/ WIndex \/ WCommit \/ Crash

SpecWriters == InitWriters /\ [][NextWriters]_vars

-----------------------------------------------------------------------------
(* SpecIngest: one thread calling put_many, ingest_raw, link, remove and   *)
(* reopening, with batches that hold a text serde_json cannot parse.  The  *)
(* run stays short of a slug table that counts more than MaxIngest keys or *)
(* probes past MaxSlot.                                                    *)

MaxIngest == 2      \* node slots the batches of one run may reserve
MaxBatch == 2       \* items of one batch

\* A text is written as the value it parses to, or as the text itself when
\* it has no parse.
BadJson == [text |-> "{"]
\* serde_json::from_str(raw): the unbalanced brace is a syntax error.
from_str(raw) == IF raw = BadJson THEN None ELSE Some(raw)

IngestItems == {<<"u/a", Payload(1)>>, <<"u/b", Payload(2)>>, <<"u/b", BadJson>>}
IngestBatches == UNION {[1..n -> IngestItems] : n \in 1..MaxBatch}

\* write_node_deferred: blob, slot, slug index, bitmap, count, hot fields and
\* no commit.  The blob is the raw text, without an injected _id.
write_node_deferred(S, slug, value) ==
    LET ids == parse_entity_id(slug)
        b_off == S.blob_offset
        S1 == append(S, value)
        n_idx == S1.node_head
        slot == [slug_hash |-> ids[2], collection_hash |-> ids[1],
                 flags |-> 1, blob_offset |-> b_off]
        S2 == [S1 EXCEPT !.node_head = @ + 1,
                         !.nodes = write_at(S1.nodes, n_idx, slot)]
        S3 == [S2 EXCEPT !.slug_index = insert(S2.slug_index, ids[2], n_idx)]
        S4 == count_add(bitmap_insert(S3, ids[1], n_idx), ids[1])
    IN  index_hot_fields(S4, n_idx, value)

\* ingest_nodes_raw: the loop returns at the first item that does not parse;
\* the single commit comes after the loop.
RECURSIVE ingest_nodes_raw_loop(_, _, _)
ingest_nodes_raw_loop(S, items, i) ==
    IF i > Len(items) THEN Ok(S)
    ELSE LET value == from_str(items[i][2]) IN
         IF ~IsSome(value) THEN Err(S)
         ELSE ingest_nodes_raw_loop(write_node_deferred(S, items[i][1], Unwrap(value)),
                                    items, i + 1)

ingest_nodes_raw(S, items) ==
    LET r == ingest_nodes_raw_loop(S, items, 1) IN
    IF ~r.ok THEN r
    ELSE Ok([r.store EXCEPT !.node_committed = r.store.node_head,
                            !.blob_committed = r.store.blob_offset])

\* write_internal: parse, then write_with_value
write_internal(S, slug, data) ==
    LET value == from_str(data) IN
    IF ~IsSome(value) THEN Err(S) ELSE Ok(write_with_value(S, slug, Unwrap(value)))

\* write_batch_internal: write_internal on each item, returning at the first error
RECURSIVE write_batch_internal(_, _, _)
write_batch_internal(S, items, i) ==
    IF i > Len(items) THEN Ok(S)
    ELSE LET r == write_internal(S, items[i][1], items[i][2]) IN
         IF ~r.ok THEN r ELSE write_batch_internal(r.store, items, i + 1)

InitIngest ==
    /\ StoreIs(EmptyStore)
    /\ kv = [s \in Slugs |-> None]
    /\ upserted = {}
    /\ batch = NoBatch
    /\ NoPipe

\* The operation returns r, having been given items.
IngestStep(r, items) ==
    /\ r.store.slug_index.count <= MaxIngest
    /\ \A pos \in DOMAIN r.store.slug_index.slots : pos <= MaxSlot
    /\ Install(r.store)
    /\ op_result' = Returned(r.ok, items)
    /\ UNCHANGED <<histVars, batch, steps, pc, candidates, pending_hops, hops_used,
                   setVars, range_index, writers, leaked, failed_writes, annVars, txnVars,
                   auxVars>>

\* nodes().ingest_raw(items)
IngestRaw == \E items \in IngestBatches :
    /\ node_head + Len(items) <= MaxIngest
    /\ IngestStep(ingest_nodes_raw(Cur, items), items)

\* nodes().put_many(items)
PutMany == \E items \in IngestBatches :
    /\ node_head + Len(items) <= MaxIngest
    /\ IngestStep(write_batch_internal(Cur, items, 1), items)

\* edges().link(src, dst, type)
IngestLink == \E src \in {"u/a", "u/b"}, dst \in {"u/a", "u/b"} :
    /\ edge_head < MaxBatch
    /\ IngestStep(add_edge_internal(Cur, src, dst, "next"), <<>>)

\* nodes().remove(slug)
IngestRemove == \E slug \in {"u/a", "u/b"} :
    IngestStep(Ok(delete_internal(Cur, slug)), <<>>)

\* drop(db); SekejapDB::new(path, count)
IngestReopen == IngestStep(Ok(new(Cur)), <<>>)

NextIngest == IngestRaw \/ PutMany \/ IngestLink \/ IngestRemove \/ IngestReopen

SpecIngest == InitIngest /\ [][NextIngest]_vars

-----------------------------------------------------------------------------
(* SpecBackup: the store of SpecIngest written to a backup file, and the   *)
(* file restored into an empty store.                                      *)

\* backup, the loop over the node slots: the payloads of the active slots
RECURSIVE backup_nodes(_, _)
backup_nodes(S, i) ==
    IF i >= S.node_head THEN <<>>
    ELSE (IF read_node(S, i).flags = 0 THEN <<>>
          ELSE <<blob_read(S, read_node(S, i).blob_offset)>>)
         \o backup_nodes(S, i + 1)

\* backup, idx_to_slug.get(idx).and_then(..).unwrap_or(""): the _id of the
\* payload of an active slot
idx_to_slug(S, idx) ==
    IF /\ idx < S.node_head
       /\ read_node(S, idx).flags # 0
       /\ "_id" \in DOMAIN blob_read(S, read_node(S, idx).blob_offset)
    THEN blob_read(S, read_node(S, idx).blob_offset)._id
    ELSE ""

\* backup, the loop over the edge slots
RECURSIVE backup_edges(_, _)
backup_edges(S, i) ==
    IF i >= S.edge_head THEN <<>>
    ELSE (IF read_edge(S, i).flags = 0 THEN <<>>
          ELSE <<[from |-> idx_to_slug(S, read_edge(S, i).from_node),
                  to |-> idx_to_slug(S, read_edge(S, i).to_node),
                  type_hash |-> read_edge(S, i).edge_type_hash]>>)
         \o backup_edges(S, i + 1)

\* SekejapDB::backup: the JSON document it writes
backup(S) == [nodes |-> backup_nodes(S, 0), edges |-> backup_edges(S, 0)]

\* restore, the slug of a node: its _id; no payload of the model has
\* _collection and _key, so every other node is "nodes/untitled"
restore_slug(node) == IF "_id" \in DOMAIN node THEN node._id ELSE "nodes/untitled"

\* restore, the loop over the nodes: write_internal(slug, json)
RECURSIVE restore_nodes(_, _, _)
restore_nodes(S, items, i) ==
    IF i > Len(items) THEN S
    ELSE restore_nodes(write_with_value(S, restore_slug(items[i]), items[i]), items, i + 1)

\* restore, one edge whose ends resolved to from_idx and to_idx
restore_edge_at(S, from_idx, to_idx, type_hash) ==
    [S EXCEPT !.edge_head = @ + 1,
              !.edges = write_at(S.edges, S.edge_head,
                                 [from_node |-> from_idx, to_node |-> to_idx,
                                  edge_type_hash |-> type_hash, flags |-> 1]),
              !.adj_fwd = adj_push(S.adj_fwd, from_idx, S.edge_head),
              !.adj_rev = adj_push(S.adj_rev, to_idx, S.edge_head),
              !.edge_committed = S.edge_head + 1]

\* restore, one edge: an end that does not resolve is the loop's continue
restore_edge(S, from_idx, to_idx, type_hash) ==
    IF ~IsSome(from_idx) \/ ~IsSome(to_idx) THEN S
    ELSE restore_edge_at(S, Unwrap(from_idx), Unwrap(to_idx), type_hash)

\* restore, the loop over the edges
RECURSIVE restore_edges(_, _, _)
restore_edges(S, items, i) ==
    IF i > Len(items) THEN S
    ELSE restore_edges(restore_edge(S, get(S.slug_index, parse_entity_id(items[i].from)[2]),
                                    get(S.slug_index, parse_entity_id(items[i].to)[2]),
                                    items[i].type_hash),
                       items, i + 1)

\* SekejapDB::restore
restore(S, file) == restore_edges(restore_nodes(S, file.nodes, 1), file.edges, 1)

InitBackup == InitIngest

\* db.backup(path); then SekejapDB::new on an empty directory and
\* restore(path) on it
BackupRestore ==
    /\ restored = None
    /\ node_head > 0
    /\ \E file \in {backup(Cur)} :
          restored' = Some([source |-> Cur, file |-> file,
                            store |-> restore(EmptyStore, file)])
    /\ UNCHANGED <<storeVars, histVars, batch, steps, pc, candidates, pending_hops, hops_used,
                   setVars, range_index, writeVars, annVars, txnVars,
                   bfs_out, wal, wal_calls, hidx, hidx_calls, parsed>>

NextBackup == IngestRaw \/ PutMany \/ IngestLink \/ IngestRemove \/ BackupRestore

SpecBackup == InitBackup /\ [][NextBackup]_vars

-----------------------------------------------------------------------------
(* HyperHNSW<CosineDistance>.  A vector is a tuple of small non-negative   *)
(* integers (the leading components of the 128 floats of its VectorSlot,   *)
(* the rest being zero).  A distance is kept in thousandths: the dot       *)
(* products and squared norms of such vectors are exact in f32, and the    *)
(* vectors the specifications store have distances that are either equal   *)
(* as f32 values or more than a thousandth apart, so every comparison of   *)
(* two distances comes out as it does on the f32 values.                   *)

M == 2                  \* init_hnsw(m)
EfConstruction == 32    \* the beam width of every insert_index call of the engine
EfSearch == 32          \* the beam width execute_pipeline searches with

Dim == 5
ZeroVector == [i \in 1..Dim |-> 0]

Min2(a, b) == IF a < b THEN a ELSE b

RECURSIVE SumTo(_, _)
SumTo(f, n) == IF n = 0 THEN 0 ELSE f[n] + SumTo(f, n - 1)

dot(a, b) == SumTo([i \in 1..Dim |-> a[i] * b[i]], Dim)

\* The integer square root, by bisection.
RECURSIVE IsqrtIn(_, _, _)
IsqrtIn(x, lo, hi) ==
    IF lo >= hi THEN lo
    ELSE LET mid == (lo + hi + 1) \div 2 IN
         IF mid * mid <= x THEN IsqrtIn(x, mid, hi) ELSE IsqrtIn(x, lo, mid - 1)
Isqrt(x) == IsqrtIn(x, 0, 46340)

\* CosineDistance::eval, in thousandths
cosine(d, sq_a, sq_b) ==
    IF sq_a = 0 \/ sq_b = 0 THEN 1000
    ELSE 1000 - Min2(1000, (1000000 * d) \div Isqrt(1000000 * sq_a * sq_b))

eval(a, b) == cosine(dot(a, b), dot(a, a), dot(b, b))

\* ArenaVectorStore::get: a slot never written reads as zeros
storage_get(store, idx) == IF idx \in DOMAIN store THEN store[idx] ELSE ZeroVector

\* std::collections::BinaryHeap over Candidate values [id, dist].  The heap
\* is its backing Vec; sign is -1 for a heap of Candidate (Ord reversed on
\* dist, the nearest on top) and 1 for a heap of ReverseCandidate (the
\* farthest on top).  Positions count from 0 as in the source.
HeapLe(x, y, sign) == sign * x.dist <= sign * y.dist

Swap(data, i, j) == [data EXCEPT ![i + 1] = data[j + 1], ![j + 1] = data[i + 1]]

\* sift_up(start = 0, pos): the element at pos rises while it is greater than
\* its parent.
RECURSIVE sift_up(_, _, _)
sift_up(data, pos, sign) ==
    IF pos = 0 THEN data
    ELSE LET parent == (pos - 1) \div 2 IN
         IF HeapLe(data[pos + 1], data[parent + 1], sign) THEN data
         ELSE sift_up(Swap(data, pos, parent), parent, sign)

heap_push(data, item, sign) == sift_up(Append(data, item), Len(data), sign)

\* sift_down_to_bottom(0): the element at the root goes down to a leaf along
\* the greater children (the right one on a tie), then rises again.
RECURSIVE sift_down_to_bottom(_, _, _)
sift_down_to_bottom(data, pos, sign) ==
    LET end == Len(data)
        child == 2 * pos + 1
    IN  IF end >= 2 /\ child <= end - 2
        THEN LET c == IF HeapLe(data[child + 1], data[child + 2], sign)
                      THEN child + 1 ELSE child
             IN  sift_down_to_bottom(Swap(data, pos, c), c, sign)
        ELSE IF child = end - 1
             THEN sift_up(Swap(data, pos, child), child, sign)
             ELSE sift_up(data, pos, sign)

\* pop: <<the greatest element, the heap without it>>; called on a heap that
\* is not empty
heap_pop(data, sign) ==
    LET last == data[Len(data)]
        rest == SubSeq(data, 1, Len(data) - 1)
    IN  IF rest = <<>> THEN <<last, rest>>
        ELSE <<data[1], sift_down_to_bottom([rest EXCEPT ![1] = last], 0, sign)>>

\* HNSWGraph::get_neighbors: None for a node that is not registered or has no
\* such layer
get_neighbors(g, node_idx, layer) ==
    IF node_idx \notin DOMAIN g.nodes THEN None
    ELSE IF layer >= Len(g.nodes[node_idx]) THEN None
    ELSE Some(g.nodes[node_idx][layer + 1])

\* search_layer, the for loop over the neighbours of the popped candidate;
\* st is [candidates, top_results, visited].
search_keep(seen, cand, pushed, ef) ==
    [seen EXCEPT !.candidates = heap_push(seen.candidates, cand, -1),
                 !.top_results = IF Len(pushed) > ef THEN heap_pop(pushed, 1)[2]
                                 ELSE pushed]

\* search_layer, one neighbour that was not visited yet, dist away from the
\* query
search_visit(st, nb_id, dist, ef) ==
    IF Len(st.top_results) < ef \/ dist < st.top_results[1].dist
    THEN search_keep([st EXCEPT !.visited = @ \cup {nb_id}], [id |-> nb_id, dist |-> dist],
                     heap_push(st.top_results, [id |-> nb_id, dist |-> dist], 1), ef)
    ELSE [st EXCEPT !.visited = @ \cup {nb_id}]

RECURSIVE search_expand(_, _, _, _, _, _)
search_expand(st, neighbors, i, query, ef, store) ==
    IF i > Len(neighbors) THEN st
    ELSE IF neighbors[i] \in st.visited
    THEN search_expand(st, neighbors, i + 1, query, ef, store)
    ELSE search_expand(search_visit(st, neighbors[i],
                                    eval(query, storage_get(store, neighbors[i])), ef),
                       neighbors, i + 1, query, ef, store)

\* search_layer, the while loop
RECURSIVE search_loop(_, _, _, _, _, _)
RECURSIVE search_popped(_, _, _, _, _, _, _, _)
search_popped(st, current, rest, query, ef, layer, g, store) ==
    IF current.dist > st.top_results[1].dist /\ Len(st.top_results) >= ef
    THEN st.top_results
    ELSE IF ~IsSome(get_neighbors(g, current.id, layer))
    THEN search_loop([st EXCEPT !.candidates = rest], query, ef, layer, g, store)
    ELSE search_loop(search_expand([st EXCEPT !.candidates = rest],
                                   Unwrap(get_neighbors(g, current.id, layer)),
                                   1, query, ef, store),
                     query, ef, layer, g, store)

search_pop(st, popped, query, ef, layer, g, store) ==
    search_popped(st, popped[1], popped[2], query, ef, layer, g, store)

search_loop(st, query, ef, layer, g, store) ==
    IF st.candidates = <<>> THEN st.top_results
    ELSE search_pop(st, heap_pop(st.candidates, -1), query, ef, layer, g, store)

\* search_layer: top_results.into_iter().collect(), the heap's backing Vec
search_from(first, query, ef, layer, g, store) ==
    search_loop([candidates |-> <<first>>, top_results |-> <<first>>,
                 visited |-> {first.id}],
                query, ef, layer, g, store)

search_layer(query, entry_point, ef, layer, g, store) ==
    search_from([id |-> entry_point, dist |-> eval(query, storage_get(store, entry_point))],
                query, ef, layer, g, store)

\* candidates.sort_by(|a, b| a.dist.partial_cmp(&b.dist)): a stable sort
RECURSIVE sort_by_dist(_)
sort_take(cands, least) ==
    <<cands[least]>> \o
    sort_by_dist(SubSeq(cands, 1, least - 1) \o SubSeq(cands, least + 1, Len(cands)))

sort_by_dist(cands) ==
    IF cands = <<>> THEN <<>>
    ELSE sort_take(cands,
                   CHOOSE i \in 1..Len(cands) :
                      /\ \A j \in 1..Len(cands) : cands[i].dist <= cands[j].dist
                      /\ \A j \in 1..(i - 1) : cands[j].dist # cands[i].dist)

\* select_neighbors_heuristic, the loop over the sorted candidates
RECURSIVE select_loop(_, _, _, _, _)
select_loop(store, sorted, i, m, result) ==
    IF i > Len(sorted) \/ Len(result) >= m THEN result
    ELSE LET cand == sorted[i]
             is_good == \A k \in 1..Len(result) :
                           ~(eval(storage_get(store, cand.id), storage_get(store, result[k]))
                                < cand.dist)
         IN  select_loop(store, sorted, i + 1, m,
                         IF is_good THEN Append(result, cand.id) ELSE result)

select_sorted(store, sorted, m) ==
    [result |-> select_loop(store, sorted, 1, m, <<>>), candidates |-> sorted]

\* select_neighbors_heuristic: [result, candidates], the second being the
\* caller's vector as the call leaves it (sorted when it was longer than m)
select_neighbors_heuristic(store, found, m) ==
    IF Len(found) <= m
    THEN [result |-> [i \in 1..Len(found) |-> found[i].id], candidates |-> found]
    ELSE select_sorted(store, sort_by_dist(found), m)

m_max(level) == IF level = 0 THEN 2 * M ELSE M

\* add_node_at: nodes.insert(idx, Node { layers }) with max_level + 1 empty
\* lists, replacing the node an earlier call registered at idx
add_node_at(g, idx, max_level) ==
    [g EXCEPT !.nodes = Put(g.nodes, idx, [l \in 1..(max_level + 1) |-> <<>>])]

\* update_neighbors: nodes.get(&node_idx).unwrap() and node.layers[layer]
\* panic for a node that is not registered or has no such layer; a call that
\* has panicked does nothing more.
update_neighbors(g, node_idx, layer, new_neighbors) ==
    IF g.panic THEN g
    ELSE IF node_idx \notin DOMAIN g.nodes \/ layer >= Len(g.nodes[node_idx])
    THEN [g EXCEPT !.panic = TRUE]
    ELSE [g EXCEPT !.nodes[node_idx][layer + 1] = new_neighbors]

\* connect_at_level, the loop over the selected neighbours
connect_prune(store, nb_id, level, nb_neighbors) ==
    IF Len(nb_neighbors) > m_max(level)
    THEN select_neighbors_heuristic(
             store,
             [k \in 1..Len(nb_neighbors) |->
                 [id |-> nb_neighbors[k],
                  dist |-> eval(storage_get(store, nb_neighbors[k]),
                                storage_get(store, nb_id))]],
             m_max(level)).result
    ELSE nb_neighbors

connect_back(old, actual_idx) ==
    Append(IF IsSome(old) THEN Unwrap(old) ELSE <<>>, actual_idx)

RECURSIVE connect_neighbours(_, _, _, _, _, _)
connect_neighbours(g, store, actual_idx, level, neighbors, i) ==
    IF i > Len(neighbors) \/ g.panic THEN g
    ELSE connect_neighbours(
             update_neighbors(g, neighbors[i], level,
                              connect_prune(store, neighbors[i], level,
                                            connect_back(get_neighbors(g, neighbors[i], level),
                                                         actual_idx))),
             store, actual_idx, level, neighbors, i + 1)

\* connect_at_level: [g, ep, found], ep being the id it returns and found
\* what its search_layer returned
connect_selected(g, store, actual_idx, curr_ep, level, found, sel) ==
    [g |-> connect_neighbours(update_neighbors(g, actual_idx, level, sel.result),
                              store, actual_idx, level, sel.result, 1),
     ep |-> IF sel.candidates = <<>> THEN curr_ep ELSE sel.candidates[1].id,
     found |-> found]

connect_found(g, store, actual_idx, curr_ep, level, found) ==
    connect_selected(g, store, actual_idx, curr_ep, level, found,
                     select_neighbors_heuristic(store, found, m_max(level)))

connect_at_level(g, store, actual_idx, vector, curr_ep, level, ef) ==
    connect_found(g, store, actual_idx, curr_ep, level,
                  search_layer(vector, curr_ep, ef, level, g, store))

\* candidates.first().map(|c| c.id).unwrap_or(curr_ep)
first_or(found, curr_ep) == IF found = <<>> THEN curr_ep ELSE found[1].id

\* insert_index, the greedy descent from curr_level down to max_level + 1
RECURSIVE descend(_, _, _, _, _, _)
descend(g, store, vector, curr_ep, level, stop) ==
    IF level < stop THEN curr_ep
    ELSE descend(g, store, vector,
                 first_or(search_layer(vector, curr_ep, 1, level, g, store), curr_ep),
                 level - 1, stop)

\* insert_index, the loop from min(max_level, curr_level) down to 0:
\* [g, ep, found] of the last connect_at_level
RECURSIVE connect_levels(_, _, _, _, _, _)
connect_levels(r, store, actual_idx, vector, level, ef) ==
    IF level < 0 \/ r.g.panic THEN r
    ELSE connect_levels(connect_at_level(r.g, store, actual_idx, vector, r.ep, level, ef),
                        store, actual_idx, vector, level - 1, ef)

\* insert_index after the entry point was read as (curr_ep, curr_level):
\* descent, wiring and (promote) the store of a higher entry point
insert_wire(g, store, actual_idx, max_level, curr_ep, curr_level, ef) ==
    connect_levels([g |-> g,
                    ep |-> descend(g, store, storage_get(store, actual_idx), curr_ep,
                                   curr_level, max_level + 1),
                    found |-> <<>>],
                   store, actual_idx, storage_get(store, actual_idx),
                   Min2(max_level, curr_level), ef)

insert_promote(g, actual_idx, max_level, curr_level) ==
    IF max_level > curr_level /\ ~g.panic
    THEN [g EXCEPT !.entry_point = Some(<<actual_idx, max_level>>)]
    ELSE g

\* insert_index run by one thread alone: [g, found]; max_level is what
\* pick_level drew
insert_wired(r, actual_idx, max_level, curr_level) ==
    [g |-> insert_promote(r.g, actual_idx, max_level, curr_level), found |-> r.found]

insert_registered(g1, store, actual_idx, max_level, ef) ==
    IF ~IsSome(g1.entry_point)
    THEN [g |-> [g1 EXCEPT !.entry_point = Some(<<actual_idx, max_level>>)], found |-> <<>>]
    ELSE insert_wired(insert_wire(g1, store, actual_idx, max_level,
                                  Unwrap(g1.entry_point)[1], Unwrap(g1.entry_point)[2], ef),
                      actual_idx, max_level, Unwrap(g1.entry_point)[2])

insert_index(g, store, actual_idx, max_level, ef) ==
    insert_registered(add_node_at(g, actual_idx, max_level), store, actual_idx, max_level, ef)

\* results.sort_by(dist); results.truncate(k)
truncate(v, k) == SubSeq(v, 1, Min2(k, Len(v)))

\* HyperHNSW::search
search(g, store, query, k, ef) ==
    IF ~IsSome(g.entry_point) THEN <<>>
    ELSE truncate(sort_by_dist(
                      search_layer(query,
                                   descend(g, store, query, Unwrap(g.entry_point)[1],
                                           Unwrap(g.entry_point)[2], 1),
                                   ef, 0, g, store)),
                  k)

-----------------------------------------------------------------------------
(* SpecAnn: one thread writing nodes with vectors into a store whose HNSW  *)
(* index was initialised, calling build_hnsw, and searching.  A write      *)
(* stores the vector at the node's arena index and runs insert_index on    *)
(* it; build_hnsw runs insert_index again on every index of the arena.     *)

MaxVectors == 6     \* nodes with vectors written in one run
MaxLevel == 1       \* the highest layer pick_level draws
MaxRebuild == 2     \* build_hnsw is called on an arena of at most this many vectors

\* Four orthogonal directions, their diagonal, and a vector that leans away
\* from the diagonal along a fifth axis: the orders in which a run writes them.
Arrivals ==
    {<< <<1, 0, 0, 0, 0>>, <<0, 1, 0, 0, 0>>, <<0, 0, 1, 0, 0>>, <<0, 0, 0, 1, 0>>,
        <<1, 1, 1, 1, 0>>, <<1, 1, 1, 1, 4>> >>,
     << <<1, 1, 1, 1, 4>>, <<1, 1, 1, 1, 0>>, <<0, 0, 0, 1, 0>>, <<0, 0, 1, 0, 0>>,
        <<0, 1, 0, 0, 0>>, <<1, 0, 0, 0, 0>> >>}

\* The vectors the next write may carry: those that continue an arrival order.
NextVectors(store) ==
    {order[Cardinality(DOMAIN store) + 1] :
        order \in {o \in Arrivals : /\ Cardinality(DOMAIN store) < Len(o)
                                    /\ \A i \in DOMAIN store : o[i + 1] = store[i]}}

Enter(gr) == [nodes |-> gr.nodes, entry_point |-> gr.entry_point, panic |-> FALSE]
Leave(g) == [nodes |-> g.nodes, entry_point |-> g.entry_point]

InitAnn ==
    /\ StoreIs(EmptyStore)
    /\ kv = [s \in Slugs |-> None]
    /\ upserted = {}
    /\ batch = NoBatch
    /\ NoPipe

AnnFrame ==
    UNCHANGED <<storeVars, histVars, batch, steps, pc, candidates, pending_hops, hops_used,
                setVars, range_index, writers, leaked, failed_writes, inserts, txnVars,
                auxVars>>

\* nodes().put(slug, json) with vectors.dense: write_vector_if_present, then
\* hnsw.insert_index(n_idx, 32)
AnnWrite == \E v \in NextVectors(storage), max_level \in 0..MaxLevel :
    /\ Cardinality(DOMAIN storage) < MaxVectors
    /\ storage' = Put(storage, Cardinality(DOMAIN storage), v)
    /\ \E r \in {insert_index(Enter(graph), Put(storage, Cardinality(DOMAIN storage), v),
                              Cardinality(DOMAIN storage), max_level, EfConstruction)} :
          /\ graph' = Leave(r.g)
          /\ insert_log' = Append(insert_log,
                                  [idx |-> Cardinality(DOMAIN storage), found |-> r.found])
          /\ op_result' = Returned(~r.g.panic, <<>>)
    /\ UNCHANGED search_out
    /\ AnnFrame

build_hnsw_logged(log, idx, one) ==
    [g |-> one.g, log |-> Append(log, [idx |-> idx, found |-> one.found])]

\* build_hnsw_batch, the loop over the indices of the arena: [g, log]
RECURSIVE build_hnsw_loop(_, _, _, _)
build_hnsw_loop(r, store, levels, idx) ==
    IF idx \notin DOMAIN store \/ r.g.panic THEN r
    ELSE build_hnsw_loop(build_hnsw_logged(r.log, idx,
                                           insert_index(r.g, store, idx, levels[idx],
                                                        EfConstruction)),
                         store, levels, idx + 1)

\* nodes().build_hnsw()
AnnBuild == \E levels \in [DOMAIN storage -> 0..MaxLevel] :
    /\ DOMAIN storage # {}
    /\ Cardinality(DOMAIN storage) <= MaxRebuild
    /\ Len(insert_log) <= MaxRebuild
    /\ \E r \in {build_hnsw_loop([g |-> Enter(graph), log |-> insert_log],
                                 storage, levels, 0)} :
          /\ graph' = Leave(r.g)
          /\ insert_log' = r.log
          /\ op_result' = Returned(~r.g.panic, <<>>)
    /\ UNCHANGED <<storage, search_out>>
    /\ AnnFrame

\* hnsw.search(query, 1, 32) with the vector of a node as the query
AnnSearch == \E n \in DOMAIN storage :
    /\ search_out' = Some([query |-> n,
                           results |-> search(Enter(graph), storage, storage[n], 1, EfSearch)])
    /\ UNCHANGED <<graph, storage, insert_log, op_result>>
    /\ AnnFrame

NextAnn == AnnWrite \/ AnnBuild \/ AnnSearch

SpecAnn == InitAnn /\ [][NextAnn]_vars

-----------------------------------------------------------------------------
(* SpecHnsw: threads running insert_index at the same time, each on an     *)
(* arena index of its own.  A thread registers its node, loads the entry   *)
(* point, and then either stores itself as the first entry point, or wires *)
(* itself from the entry point it loaded and stores itself as the entry    *)
(* point when its level is above the level it loaded.  The load and the    *)
(* stores are separate atomic operations of the code.                      *)

MaxInserts == 3     \* insert_index calls in one run

InitHnsw == InitAnn

HnswFrame ==
    UNCHANGED <<storeVars, histVars, batch, steps, pc, candidates, pending_hops, hops_used,
                setVars, range_index, writeVars, search_out, txnVars, auxVars>>

\* The insert of thread t has returned: what it did goes to the log.
InsertDone(t, found, first) ==
    /\ inserts' = Drop(inserts, t)
    /\ insert_log' = Append(insert_log,
                            [idx |-> inserts[t].idx, found |-> found, first |-> first])

\* insert_index(actual_idx, ef) is called on thread t for the vector slot
\* its write reserved: storage.get, pick_level, add_node_at
IBegin == \E t \in Threads \ DOMAIN inserts, max_level \in 0..MaxLevel :
    LET n_idx == Cardinality(DOMAIN storage) IN
    /\ n_idx < MaxInserts
    /\ \E v \in NextVectors(storage) : storage' = Put(storage, n_idx, v)
    /\ graph' = Leave(add_node_at(Enter(graph), n_idx, max_level))
    /\ inserts' = Put(inserts, t, [pc |-> "load", idx |-> n_idx,
                                   max_level |-> max_level, ep |-> None])
    /\ UNCHANGED insert_log
    /\ HnswFrame

\* entry_point.load(Acquire)
ILoad == \E t \in DOMAIN inserts :
    /\ inserts[t].pc = "load"
    /\ inserts' = Put(inserts, t,
                      [inserts[t] EXCEPT !.ep = graph.entry_point,
                                         !.pc = IF IsSome(graph.entry_point)
                                                THEN "wire" ELSE "first"])
    /\ UNCHANGED <<graph, storage, insert_log>>
    /\ HnswFrame

\* the entry point was loaded null: entry_point.store((actual_idx, max_level))
\* and return
IFirst == \E t \in DOMAIN inserts :
    /\ inserts[t].pc = "first"
    /\ graph' = [graph EXCEPT
                    !.entry_point = Some(<<inserts[t].idx, inserts[t].max_level>>)]
    /\ InsertDone(t, <<>>, TRUE)
    /\ UNCHANGED storage
    /\ HnswFrame

\* the greedy descent and connect_at_level on every level, from the entry
\* point the thread loaded
IWire == \E t \in DOMAIN inserts :
    /\ inserts[t].pc = "wire"
    /\ \E w \in {inserts[t]} :
       \E r \in {insert_wire(Enter(graph), storage, w.idx, w.max_level,
                             Unwrap(w.ep)[1], Unwrap(w.ep)[2], EfConstruction)} :
          /\ graph' = Leave(r.g)
          /\ IF w.max_level > Unwrap(w.ep)[2] /\ ~r.g.panic
             THEN /\ inserts' = Put(inserts, t, [w EXCEPT !.pc = "promote"])
                  /\ UNCHANGED insert_log
             ELSE InsertDone(t, r.found, FALSE)
    /\ UNCHANGED storage
    /\ HnswFrame

\* max_level > curr_level: entry_point.store((actual_idx, max_level))
IPromote == \E t \in DOMAIN inserts :
    LET w == inserts[t] IN
    /\ w.pc = "promote"
    /\ graph' = Leave(insert_promote(Enter(graph), w.idx, w.max_level, Unwrap(w.ep)[2]))
    /\ InsertDone(t, <<>>, FALSE)
    /\ UNCHANGED storage
    /\ HnswFrame

NextHnsw == IBegin \/ ILoad \/ IFirst \/ IWire \/ IPromote

SpecHnsw == InitHnsw /\ [][NextHnsw]_vars

-----------------------------------------------------------------------------
(* SpecTxn: clients of FastMvccManager beginning, writing in, committing   *)
(* and rolling back transactions, and taking snapshots, their calls        *)
(* interleaved at the atomic operations of FastVersionTracker.             *)

MaxTxns == 3        \* transactions begun in one run
MaxSnapshots == 2   \* snapshots taken in one run
TxnKeys == {1}      \* the keys record_write is called with

\* FastVersionTracker::end_txn
end_txn(tr, txn_id, commit_version) ==
    [tr EXCEPT !.active = @ \ {txn_id},
               !.current = IF IsSome(commit_version) /\ Unwrap(commit_version) > @
                           THEN Unwrap(commit_version) ELSE @]

\* Snapshot::is_visible without the check of the active set
is_visible_ignoring_active(snap, writer_txn, commit_version) ==
    IF commit_version > snap.version THEN FALSE
    ELSE TRUE

\* Snapshot::is_visible
is_visible(snap, writer_txn, commit_version) ==
    IF commit_version > snap.version THEN FALSE
    ELSE IF writer_txn \in snap.active_txns THEN FALSE
    ELSE TRUE

InitTxn == InitAnn

TxnFrame ==
    UNCHANGED <<storeVars, histVars, batch, steps, pc, candidates, pending_hops, hops_used,
                setVars, range_index, writeVars, annVars, auxVars>>

\* begin: tracker.next_txn_id()
TBeginId ==
    /\ tracker.next_txn_id <= MaxTxns
    /\ tracker' = [tracker EXCEPT !.next_txn_id = @ + 1]
    /\ txns' = Put(txns, tracker.next_txn_id,
                   [pc |-> "current", id |-> tracker.next_txn_id, start_version |-> 0,
                    commit_version |-> None, write_set |-> {}])
    /\ UNCHANGED snapshots
    /\ TxnFrame

\* begin: tracker.current()
TBeginCurrent == \E id \in DOMAIN txns :
    /\ txns[id].pc = "current"
    /\ txns' = Put(txns, id, [txns[id] EXCEPT !.start_version = tracker.current,
                                              !.pc = "begin_txn"])
    /\ UNCHANGED <<tracker, snapshots>>
    /\ TxnFrame

\* begin: tracker.begin_txn(id) and Transaction::new(id, version)
TBeginTxn == \E id \in DOMAIN txns :
    /\ txns[id].pc = "begin_txn"
    /\ tracker' = [tracker EXCEPT !.active = @ \cup {id}]
    /\ txns' = Put(txns, id, [txns[id] EXCEPT !.pc = "Active"])
    /\ UNCHANGED snapshots
    /\ TxnFrame

\* Transaction::record_write
TRecordWrite == \E id \in DOMAIN txns, key \in TxnKeys :
    /\ txns[id].pc = "Active"
    /\ key \notin txns[id].write_set
    /\ txns' = Put(txns, id, [txns[id] EXCEPT !.write_set = @ \cup {key}])
    /\ UNCHANGED <<tracker, snapshots>>
    /\ TxnFrame

\* commit of a transaction with an empty write set: end_txn(id, None)
TCommitReadOnly == \E id \in DOMAIN txns :
    /\ txns[id].pc = "Active"
    /\ txns[id].write_set = {}
    /\ tracker' = end_txn(tracker, id, None)
    /\ txns' = Put(txns, id, [txns[id] EXCEPT !.pc = "Committed"])
    /\ UNCHANGED snapshots
    /\ TxnFrame

\* commit of a writing transaction: tracker.increment()
TCommitIncrement == \E id \in DOMAIN txns :
    /\ txns[id].pc = "Active"
    /\ txns[id].write_set # {}
    /\ tracker' = [tracker EXCEPT !.current = @ + 1]
    /\ txns' = Put(txns, id, [txns[id] EXCEPT !.commit_version = Some(tracker.current + 1),
                                              !.pc = "end_txn"])
    /\ UNCHANGED snapshots
    /\ TxnFrame

\* commit of a writing transaction: end_txn(id, Some(commit_version))
TCommitEnd == \E id \in DOMAIN txns :
    /\ txns[id].pc = "end_txn"
    /\ tracker' = end_txn(tracker, id, txns[id].commit_version)
    /\ txns' = Put(txns, id, [txns[id] EXCEPT !.pc = "Committed"])
    /\ UNCHANGED snapshots
    /\ TxnFrame

\* rollback
TRollback == \E id \in DOMAIN txns :
    /\ txns[id].pc = "Active"
    /\ tracker' = end_txn(tracker, id, None)
    /\ txns' = Put(txns, id, [txns[id] EXCEPT !.pc = "RolledBack"])
    /\ UNCHANGED snapshots
    /\ TxnFrame

\* snapshot: current.load(Acquire)
SnapshotLoad ==
    /\ Cardinality(snapshots) < MaxSnapshots
    /\ \A sn \in snapshots : sn.taken
    /\ snapshots' = snapshots \cup
                       {[version |-> tracker.current, active_txns |-> {}, taken |-> FALSE]}
    /\ UNCHANGED <<tracker, txns>>
    /\ TxnFrame

\* snapshot: active_txns() and Snapshot::new(version, active_txns)
SnapshotActive == \E sn \in snapshots :
    /\ ~sn.taken
    /\ snapshots' = (snapshots \ {sn}) \cup
                       {[version |-> sn.version, active_txns |-> tracker.active,
                         taken |-> TRUE]}
    /\ UNCHANGED <<tracker, txns>>
    /\ TxnFrame

NextTxn ==
    \/ TBeginId \/ TBeginCurrent \/ TBeginTxn \/ TRecordWrite
    \/ TCommitReadOnly \/ TCommitIncrement \/ TCommitEnd \/ TRollback
    \/ SnapshotLoad \/ SnapshotActive

SpecTxn == InitTxn /\ [][NextTxn]_vars

-----------------------------------------------------------------------------
(* SpecWal: threads inside DiskWAL::append and DiskWAL::sync, and the      *)
(* group-commit thread, one lock section per step.  An entry is written    *)
(* here as its LSN.  The flush thread holds the pending lock from the      *)
(* drain to the end of its write, so its flush_batch is one step; sync     *)
(* releases the pending lock after the drain and takes the file lock       *)
(* later.                                                                  *)

MaxAppends == 3     \* append calls on one log
MaxSyncs == 2       \* sync calls on one log

InitWal == InitAnn

WalFrame ==
    UNCHANGED <<storeVars, histVars, batch, steps, pc, candidates, pending_hops, hops_used,
                setVars, range_index, writeVars, annVars, txnVars,
                restored, bfs_out, hidx, hidx_calls, parsed>>

\* DiskWAL::with_config on an empty directory
WalOpen ==
    /\ wal = <<>>
    /\ wal' = [lsn |-> 0, pending |-> <<>>, file |-> <<>>,
               returned |-> {}, syncs |-> 0, synced |-> {}]
    /\ UNCHANGED wal_calls
    /\ WalFrame

\* let lsn = self.lsn.fetch_add(1, Ordering::SeqCst);
AppendFetch == \E t \in Threads :
    /\ wal # <<>>
    /\ t \notin DOMAIN wal_calls
    /\ wal.lsn < MaxAppends
    /\ wal' = [wal EXCEPT !.lsn = @ + 1]
    /\ wal_calls' = Put(wal_calls, t, [op |-> "append", pc |-> "push", lsn |-> wal.lsn])
    /\ WalFrame

\* pending.lock(); pending.push_back(entry); Ok(lsn)
AppendPush == \E t \in DOMAIN wal_calls :
    /\ wal_calls[t].pc = "push"
    /\ wal' = [wal EXCEPT !.pending = Append(@, wal_calls[t].lsn),
                          !.returned = @ \cup {wal_calls[t].lsn}]
    /\ wal_calls' = Drop(wal_calls, t)
    /\ WalFrame

\* sync() is called: the appends that returned before it are its obligation
SyncBegin == \E t \in Threads :
    /\ wal # <<>>
    /\ t \notin DOMAIN wal_calls
    /\ wal.syncs < MaxSyncs
    /\ wal' = [wal EXCEPT !.syncs = @ + 1]
    /\ wal_calls' = Put(wal_calls, t, [op |-> "sync", pc |-> "drain",
                                       before |-> wal.returned, entries |-> <<>>])
    /\ WalFrame

\* let entries = { pending.lock(); pending.drain(..).collect() };
SyncDrain == \E t \in DOMAIN wal_calls :
    /\ wal_calls[t].pc = "drain"
    /\ wal' = [wal EXCEPT !.pending = <<>>]
    /\ wal_calls' = [wal_calls EXCEPT ![t].pc = "write", ![t].entries = wal.pending]
    /\ WalFrame

\* if !entries.is_empty() { file.lock(); file.write_all(&encoded); file.flush() }
SyncWrite == \E t \in DOMAIN wal_calls :
    /\ wal_calls[t].pc = "write"
    /\ wal' = [wal EXCEPT !.file = @ \o wal_calls[t].entries]
    /\ wal_calls' = [wal_calls EXCEPT ![t].pc = "sync_all"]
    /\ WalFrame

\* file.lock(); file.get_ref().sync_all(); Ok(())
SyncAll == \E t \in DOMAIN wal_calls :
    /\ wal_calls[t].pc = "sync_all"
    /\ wal' = [wal EXCEPT !.synced = @ \cup wal_calls[t].before]
    /\ wal_calls' = Drop(wal_calls, t)
    /\ WalFrame

\* the flush thread wakes, locks pending and, pending not being empty, runs
\* flush_batch: drain, write_all and flush under the pending lock
FlushBatch ==
    /\ wal # <<>>
    /\ wal.pending # <<>>
    /\ wal' = [wal EXCEPT !.pending = <<>>, !.file = @ \o wal.pending]
    /\ UNCHANGED wal_calls
    /\ WalFrame

NextWal ==
    \/ WalOpen \/ AppendFetch \/ AppendPush
    \/ SyncBegin \/ SyncDrain \/ SyncWrite \/ SyncAll \/ FlushBatch

SpecWal == InitWal /\ [][NextWal]_vars

-----------------------------------------------------------------------------
(* SpecHidx: threads inside HashIndex::insert and HashIndex::remove, each  *)
(* on the node index of its own, one DashMap call per step.  A DashMap     *)
(* call holds the lock of its shard from its start to its end; get_mut     *)
(* holds it until the guard is dropped.  last_value is the history: the    *)
(* hash of the value last inserted for a node and not removed since.       *)

MaxIndexCalls == 4  \* insert and remove calls on one index

IndexValues == {[kind |-> "Number", num |-> 1], [kind |-> "Number", num |-> 2]}

InitHidx == InitAnn

HidxFrame ==
    UNCHANGED <<storeVars, histVars, batch, steps, pc, candidates, pending_hops, hops_used,
                setVars, range_index, writeVars, annVars, txnVars,
                restored, bfs_out, wal, wal_calls, parsed>>

\* HashIndex::new
HidxNew ==
    /\ hidx = <<>>
    /\ hidx' = [index |-> NewFieldIndex.index, reverse |-> NewFieldIndex.reverse,
                last_value |-> <<>>, calls |-> 0]
    /\ UNCHANGED hidx_calls
    /\ HidxFrame

\* idx.insert(node_idx, value) is called on thread t, for the node of t
HidxInsertBegin == \E t \in Threads, value \in IndexValues :
    /\ hidx # <<>>
    /\ t \notin DOMAIN hidx_calls
    /\ hidx.calls < MaxIndexCalls
    /\ hidx' = [hidx EXCEPT !.calls = @ + 1]
    /\ hidx_calls' = Put(hidx_calls, t, [op |-> "insert", pc |-> "reverse_remove",
                                         node_idx |-> t, hash |-> hash_value(value),
                                         old_hash |-> None])
    /\ HidxFrame

\* idx.remove(node_idx) is called on thread t, for the node of t
HidxRemoveBegin == \E t \in Threads :
    /\ hidx # <<>>
    /\ t \notin DOMAIN hidx_calls
    /\ hidx.calls < MaxIndexCalls
    /\ hidx' = [hidx EXCEPT !.calls = @ + 1]
    /\ hidx_calls' = Put(hidx_calls, t, [op |-> "remove", pc |-> "reverse_remove",
                                         node_idx |-> t, hash |-> None, old_hash |-> None])
    /\ HidxFrame

\* remove has ended on thread t and left the index h: insert goes on to its
\* push, remove returns
RemoveEnds(t, h) ==
    IF hidx_calls[t].op = "insert"
    THEN /\ hidx' = h
         /\ hidx_calls' = [hidx_calls EXCEPT ![t].pc = "push"]
    ELSE /\ hidx' = [h EXCEPT !.last_value = Drop(@, hidx_calls[t].node_idx)]
         /\ hidx_calls' = Drop(hidx_calls, t)

\* if let Some((_, old_hash)) = self.reverse.remove(&node_idx)
RemoveReverse == \E t \in DOMAIN hidx_calls :
    /\ hidx_calls[t].pc = "reverse_remove"
    /\ IF hidx_calls[t].node_idx \in DOMAIN hidx.reverse
       THEN /\ hidx' = [hidx EXCEPT !.reverse = Drop(@, hidx_calls[t].node_idx)]
            /\ hidx_calls' = [hidx_calls EXCEPT
                                 ![t].pc = "get_mut",
                                 ![t].old_hash = Some(hidx.reverse[hidx_calls[t].node_idx])]
       ELSE RemoveEnds(t, hidx)
    /\ HidxFrame

\* the list of old_hash after position and swap_remove
RemovedFrom(found, node_idx) ==
    IF position(found, node_idx) # 0
    THEN swap_remove(found, position(found, node_idx)) ELSE found

\* if let Some(mut nodes) = self.index.get_mut(&old_hash): swap_remove, and
\* drop(nodes) when the list is empty
RemoveGetMut == \E t \in DOMAIN hidx_calls :
    /\ hidx_calls[t].pc = "get_mut"
    /\ \E old_hash \in {Unwrap(hidx_calls[t].old_hash)} :
          IF old_hash \notin DOMAIN hidx.index THEN RemoveEnds(t, hidx)
          ELSE \E left \in {RemovedFrom(hidx.index[old_hash], hidx_calls[t].node_idx)} :
                  IF left = <<>>
                  THEN /\ hidx' = [hidx EXCEPT !.index[old_hash] = left]
                       /\ hidx_calls' = [hidx_calls EXCEPT ![t].pc = "index_remove"]
                  ELSE RemoveEnds(t, [hidx EXCEPT !.index[old_hash] = left])
    /\ HidxFrame

\* self.index.remove(&old_hash)
RemoveEntry == \E t \in DOMAIN hidx_calls :
    /\ hidx_calls[t].pc = "index_remove"
    /\ RemoveEnds(t, [hidx EXCEPT !.index = Drop(@, Unwrap(hidx_calls[t].old_hash))])
    /\ HidxFrame

\* self.index.entry(hash).or_default().push(node_idx)
InsertPush == \E t \in DOMAIN hidx_calls :
    /\ hidx_calls[t].pc = "push"
    /\ \E hash \in {hidx_calls[t].hash} :
          hidx' = [hidx EXCEPT !.index =
                      Put(hidx.index, hash,
                          IF hash \in DOMAIN hidx.index
                          THEN Append(hidx.index[hash], hidx_calls[t].node_idx)
                          ELSE <<hidx_calls[t].node_idx>>)]
    /\ hidx_calls' = [hidx_calls EXCEPT ![t].pc = "reverse_insert"]
    /\ HidxFrame

\* self.reverse.insert(node_idx, hash)
InsertReverse == \E t \in DOMAIN hidx_calls :
    /\ hidx_calls[t].pc = "reverse_insert"
    /\ hidx' = [hidx EXCEPT
                  !.reverse = Put(hidx.reverse, hidx_calls[t].node_idx, hidx_calls[t].hash),
                  !.last_value = Put(hidx.last_value, hidx_calls[t].node_idx,
                                     hidx_calls[t].hash)]
    /\ hidx_calls' = Drop(hidx_calls, t)
    /\ HidxFrame

NextHidx ==
    \/ HidxNew \/ HidxInsertBegin \/ HidxRemoveBegin
    \/ RemoveReverse \/ RemoveGetMut \/ RemoveEntry \/ InsertPush \/ InsertReverse

SpecHidx == InitHidx /\ [][NextHidx]_vars

-----------------------------------------------------------------------------
(* SpecParse: SekejapQL::new().parse_pipeline on query documents whose     *)
(* set steps nest up to MaxDepth levels.  A step object is written with    *)
(* its op and its "other" array; a parsed Step with the name of its        *)
(* variant and its inner steps.                                            *)

max_pipeline_length == 50
max_nested_pipelines == 3
MaxDepth == 5       \* deepest nesting of a query document

SetOps == {"intersect", "union", "subtract"}

\* The pipelines of one step nested at most d levels.
RECURSIVE Docs(_)
Docs(d) ==
    {<<[op |-> "all", other |-> <<>>]>>} \cup
    (IF d = 0 THEN {}
     ELSE {<<[op |-> o, other |-> inner]>> : o \in SetOps, inner \in Docs(d - 1)})

ParseError == [ok |-> FALSE, steps |-> <<>>]

StepVariant(op) ==
    CASE op = "all" -> "All"
      [] op = "intersect" -> "Intersect"
      [] op = "union" -> "Union"
      [] op = "subtract" -> "Subtract"

RECURSIVE parse_pipeline(_)
RECURSIVE parse_from(_, _)

\* Ok(Step::Intersect(other_steps)) and its like, or the error of the inner parse
set_step(op, inner) ==
    IF inner.ok THEN [ok |-> TRUE, steps |-> <<[op |-> StepVariant(op), other |-> inner.steps]>>]
    ELSE ParseError

parse_step(obj, depth) ==
    IF depth > max_nested_pipelines THEN ParseError
    ELSE IF obj.op \in SetOps THEN set_step(obj.op, parse_pipeline(obj.other))
    ELSE [ok |-> TRUE, steps |-> <<[op |-> StepVariant(obj.op), other |-> <<>>]>>]

\* steps.push(..?) and the rest of the loop
push_rest(first, rest) ==
    IF first.ok /\ rest.ok THEN [ok |-> TRUE, steps |-> first.steps \o rest.steps]
    ELSE ParseError

\* for step_obj in pipeline.iter() { steps.push(self.parse_step(step_obj, 0)?); }
parse_from(pipeline, i) ==
    IF i > Len(pipeline) THEN [ok |-> TRUE, steps |-> <<>>]
    ELSE push_rest(parse_step(pipeline[i], 0), parse_from(pipeline, i + 1))

parse_pipeline(pipeline) ==
    IF Len(pipeline) > max_pipeline_length THEN ParseError
    ELSE parse_from(pipeline, 1)

InitParse == InitAnn

\* SekejapQL::new().parse_pipeline(&doc)
ParseQuery == \E doc \in Docs(MaxDepth) :
    /\ parsed = None
    /\ parsed' = Some([doc |-> doc, result |-> parse_pipeline(doc)])
    /\ UNCHANGED <<storeVars, histVars, batch, steps, pc, candidates, pending_hops, hops_used,
                   setVars, range_index, writeVars, annVars, txnVars,
                   restored, bfs_out, wal, wal_calls, hidx, hidx_calls>>

NextParse == ParseQuery

SpecParse == InitParse /\ [][NextParse]_vars

-----------------------------------------------------------------------------
(* What the properties below speak of. *)

Active(S, i) == read_node(S, i).flags # 0

\* Slots a delete has tombstoned: reserved, written, flag cleared.
Tombstoned(S) == {i \in 0..(S.node_head - 1) : ~Active(S, i)}

CollectionHashes == {seahash(c) : c \in Collections}

Result == IF IsSome(candidates) THEN Unwrap(candidates) ELSE {}

\* The far ends of the active edges of one type whose near end is in from:
\* the edge arena read slot by slot, outgoing for "fwd", incoming for "rev".
Neighbours(S, dir, from, type_hash) ==
    {IF dir = "fwd" THEN read_edge(S, j).to_node ELSE read_edge(S, j).from_node :
        j \in {e \in 0..(S.edge_head - 1) :
                 /\ read_edge(S, e).flags # 0
                 /\ read_edge(S, e).edge_type_hash = type_hash
                 /\ (IF dir = "fwd" THEN read_edge(S, e).from_node
                                     ELSE read_edge(S, e).to_node) \in from}}

\* Nodes within h such edges of start.
RECURSIVE Reach(_, _, _, _, _)
Reach(S, dir, start, type_hash, h) ==
    IF h = 0 THEN start
    ELSE Reach(S, dir, start \cup Neighbours(S, dir, start, type_hash), type_hash, h - 1)

\* What a client can see of a store: get of every slug, the count of every
\* collection, and every traversal from a single slug.
Observe(S) ==
    [get |-> [s \in Slugs |-> read_internal(S, s)],
     count |-> [c \in Collections |-> count_collection_internal(S, c)],
     walk |-> [s \in Slugs, t \in EdgeTypes, h \in 1..MaxHops, op \in {"Forward", "Backward"} |->
                 execute_pipeline(S, <<StepOf("One", seahash(s)), StepOf("Hops", h),
                                       StepOf(op, seahash(t))>>)]]

\* The queries put to a store with tombstoned nodes: every starter alone,
\* and every starter followed by a traversal of 1..MaxHops hops.
TombQueries ==
    LET starts == {StepOf("One", seahash(s)) : s \in Slugs}
                  \cup {StepOf("Collection", h) : h \in CollectionHashes}
                  \cup {StepOf("All", 0)}
        walks == {StepOf(op, seahash(t)) : op \in {"Forward", "Backward"}, t \in EdgeTypes}
    IN  {<<s>> : s \in starts}
        \cup {<<s, StepOf("Hops", h), w>> : s \in starts, h \in 1..MaxHops, w \in walks}

\* The state a delete of slug must leave, K being the live payloads after it.
DeletePost(S, K, slug) ==
    /\ get(S.slug_index, seahash(slug)) = None
    /\ \A i \in 0..(S.node_head - 1) : read_node(S, i).slug_hash = seahash(slug) => ~Active(S, i)
    /\ read_internal(S, slug) = None
    /\ count_collection_internal(S, Unwrap(SlugPrefix(slug)))
         = Cardinality({s \in Slugs : IsSome(K[s]) /\ SlugPrefix(s) = SlugPrefix(slug)})

-----------------------------------------------------------------------------
(* Properties. *)

\* C1: after any writes (repeated writes of a slug included), deletes and
\* reopens, every node slot i whose active flag is non-zero has
\* slug_index.get(slot.slug_hash) = Some(i).
C1_ActiveSlotIsIndexed ==
    \A i \in 0..(node_head - 1) :
        Active(Cur, i) => get(slug_index, read_node(Cur, i).slug_hash) = Some(i)

\* C2: the arena index of a tombstoned node is in the result of no query,
\* starters and Forward/Backward traversals, also after flush and reopen.
C2_TombstonedNeverReturned ==
    \A q \in TombQueries : execute_pipeline(Cur, q) \cap Tombstoned(Cur) = {}

\* C3: after any writes, deletes, flushes and reopens, the bitmap of
\* collection hash h contains index i exactly when node i is active and its
\* collection_hash is h.
C3_BitmapIffActiveInCollection ==
    \A h \in CollectionHashes : \A i \in 0..(MaxNodes - 1) :
        i \in get_snapshot(Cur, h)
            <=> (Active(Cur, i) /\ read_node(Cur, i).collection_hash = h)

\* C4: flushing, closing and opening the store changes no get(slug), no
\* collection count and no forward or backward traversal result.
C4_ReopenObservesTheSame == Observe(new(flush(Cur))) = Observe(Cur)

\* C5: when delete(slug) returns, slug_index.get of the slug is None, no slot
\* carrying the slug is active, get(slug) is empty and the count of the
\* slug's collection counts the live slugs of that collection only.
C5_DeletePostconditions ==
    [][\A slug \in StoreSlugs :
          (IsSome(kv[slug]) /\ DeleteOp(slug)) => DeletePost(Cur', kv', slug)]_vars

\* C6: a slug written again reads as its last payload, whatever writes and
\* deletes of other slugs came before, between or after the two writes.
C6_UpsertReadsLastPayload ==
    \A s \in upserted : read_internal(Cur, s) = kv[s]

\* C7: after any links, batch edge ingests, unlinks and reopens, every edge
\* slot j whose active flag is non-zero is in adj_fwd of its from_node and in
\* adj_rev of its to_node.
C7_AdjacencyMirrorsEdges ==
    batch = NoBatch =>
        \A j \in 0..(edge_head - 1) :
            LET edge == read_edge(Cur, j) IN
            edge.flags # 0 =>
                /\ edge.from_node \in DOMAIN adj_fwd /\ j \in Range(adj_fwd[edge.from_node])
                /\ edge.to_node \in DOMAIN adj_rev /\ j \in Range(adj_rev[edge.to_node])

\* C7 witness: a committed batch whose workers pushed out of slot order, so
\* one adjacency list holds two active edges, the later slot first.
C7_Witness ==
    /\ batch = NoBatch
    /\ edge_committed = edge_head
    /\ \E n \in DOMAIN adj_fwd :
          /\ Len(adj_fwd[n]) >= 2
          /\ adj_fwd[n][1] > adj_fwd[n][2]
          /\ read_edge(Cur, adj_fwd[n][1]).flags # 0
          /\ read_edge(Cur, adj_fwd[n][2]).flags # 0

\* C8: Forward(type) with h hops returns exactly the start set united with
\* every node within h outgoing active edges of that type; Backward the same
\* over incoming edges; an edge whose active flag is 0 is never followed.
C8_TraversalIsBoundedReach ==
    batch = NoBatch =>
        LET S == Cur IN
        \A start \in (SUBSET (0..(node_head - 1))) \ {{}}, t \in EdgeTypes, h \in 1..MaxHops :
            /\ bfs_forward(S, Some(start), seahash(t), h) = Reach(S, "fwd", start, seahash(t), h)
            /\ bfs_backward(S, Some(start), seahash(t), h) = Reach(S, "rev", start, seahash(t), h)

\* C8 witness: a second hop reaches a node the first did not, and an
\* unlinked edge of the same type leaves its target out of the traversal
\* from its source.
C8_Witness ==
    /\ batch = NoBatch
    /\ \E n \in 0..(node_head - 1), t \in EdgeTypes :
          /\ bfs_forward(Cur, Some({n}), seahash(t), 2) # bfs_forward(Cur, Some({n}), seahash(t), 1)
          /\ \E j \in 0..(edge_head - 1) :
                LET edge == read_edge(Cur, j) IN
                /\ edge.flags = 0
                /\ edge.edge_type_hash = seahash(t)
                /\ edge.to_node \notin bfs_forward(Cur, Some({edge.from_node}), seahash(t), MaxHops)

\* The bitmap execute_pipeline returns for candidates c: unwrap_or_default.
OrDefault(c) == IF IsSome(c) THEN Unwrap(c) ELSE {}

IsStarter(step) == step.op \in {"One", "Many", "Collection", "All"}
IsFilter(step) == step.op \in {"WhereEq", "WhereIn"}

\* The set a starter stands for: the active nodes of the slug, of the
\* slugs, of the collection, or all of them.
StarterSet(S, step) ==
    {i \in 0..(S.node_head - 1) :
        /\ Active(S, i)
        /\ CASE step.op = "One" -> read_node(S, i).slug_hash = step.arg
             [] step.op = "Many" -> read_node(S, i).slug_hash \in Range(step.hashes)
             [] step.op = "Collection" -> read_node(S, i).collection_hash = step.arg
             [] step.op = "All" -> TRUE}

\* The active nodes of the pool whose payload passes the filter.
Matching(S, pool, step) ==
    {i \in pool :
        /\ Active(S, i)
        /\ LET found == json_get(blob_read(S, read_node(S, i).blob_offset), step.field)
           IN  /\ IsSome(found)
               /\ CASE step.op = "WhereEq" -> Unwrap(found) = step.value
                    [] step.op = "WhereIn" -> Unwrap(found) \in step.values}

AllNodes(S) == 0..(S.node_head - 1)

\* C9: over the chain a -> b -> c -> d, one("a").forward("next").hops(3)
\* returns a bitmap containing a, b, c and d, and
\* one("d").backward("next").hops(3) returns exactly a, b, c and d.
C9_HopsAfterTraversalReachesChain ==
    LET chain == {Unwrap(get(slug_index, seahash(ChainSlugs[k]))) : k \in 1..Len(ChainSlugs)}
    IN  /\ (/\ steps = <<StepOf("One", seahash("u/a")), StepOf("Forward", seahash("next")),
                         StepOf("Hops", 3)>>
            /\ pc = Len(steps))
           => chain \subseteq Result
        /\ (/\ steps = <<StepOf("One", seahash("u/d")), StepOf("Backward", seahash("next")),
                         StepOf("Hops", 3)>>
            /\ pc = Len(steps))
           => Result = chain

\* C10: a traversal step runs with the number of the Hops step right before
\* it in the step list, and with 1 hop when the step before it is no Hops.
C10_HopsBindsNextStepOnly ==
    \A k \in 1..Len(hops_used) :
        LET at == hops_used[k][1]
            ran == hops_used[k][2]
        IN  ran = IF at > 1 /\ steps[at - 1].op = "Hops" THEN steps[at - 1].arg ELSE 1

\* C11: after a starter step (One, Many, Collection, All) the candidate
\* bitmap is the starter's own set, whatever the candidates were before it.
C11_StarterReplacesCandidates ==
    (pc >= 1 /\ IsStarter(steps[pc]))
        => candidates = Some(StarterSet(Cur, steps[pc]))

\* C12: a filter step leaves the nodes that pass it among the candidates
\* when there are candidates, and all the nodes that pass it when there
\* are none, with or without an index on the field.
C12_FilterIntersectsOrEstablishes ==
    [][(pc' = pc + 1 /\ IsFilter(steps[pc + 1]))
        => candidates' = Some(Matching(Cur,
                                       IF IsSome(candidates) THEN Unwrap(candidates)
                                       ELSE AllNodes(Cur),
                                       steps[pc + 1]))]_vars

C17_IndexedWhereEqIsPayloadScan ==
    [][(/\ pc' = pc + 1
        /\ steps[pc + 1].op = "WhereEq"
        /\ steps[pc + 1].field \in DOMAIN field_hash_indexes)
        => candidates' = Some(Matching(Cur,
                                       IF IsSome(candidates) THEN Unwrap(candidates)
                                       ELSE AllNodes(Cur),
                                       steps[pc + 1]))]_vars

\* C18: after any inserts and removes, lookup_range(lo, hi) returns exactly
\* the nodes whose indexed value v has lo <= v <= hi, every node of a run
\* of equal values at lo or hi included.
C18_LookupRangeIsExact ==
    [][\A lo \in RangeValues, hi \in RangeValues :
        (lo <= hi /\ LookupRangeOp(JNumber(lo), JNumber(hi)))
            => candidates' = Some({range_index.data[i].node_idx :
                                     i \in {j \in 1..Len(range_index.data) :
                                              /\ lo <= range_index.data[j].value
                                              /\ range_index.data[j].value <= hi}})]_vars

\* C19: get(k) returns Some(v) exactly when k was inserted, last with
\* value v, and not removed since, and None otherwise: removing one key
\* never makes another present key unreachable.
C19_GetMissesIffAbsent ==
    \A s \in Slugs : get(slug_index, seahash(s)) = kv[s]

\* C20: each key occupies at most one slot of the table, and count() is
\* the number of distinct keys present.
C20_OneSlotPerKeyAndCount ==
    /\ \A p \in DOMAIN slug_index.slots, q \in DOMAIN slug_index.slots :
          (/\ slug_index.slots[p].key = slug_index.slots[q].key
           /\ slug_index.slots[p].key \notin {KeyEmpty, KeyTombstone})
            => p = q
    /\ slug_index.count = Cardinality({s \in Slugs : IsSome(kv[s])})

\* The sort key of the node at idx is missing: its payload has no such
\* field or holds null in it.
LacksField(S, idx, field) ==
    LET found == json_get(blob_read(S, read_node(S, idx).blob_offset), field)
    IN  ~IsSome(found) \/ Unwrap(found) = JNull

\* The argument of the pipeline's Take step, None when it has none.
TakeArg ==
    IF \E k \in 1..Len(steps) : steps[k].op = "Take"
    THEN Some(steps[CHOOSE k \in 1..Len(steps) : steps[k].op = "Take"].arg)
    ELSE None

\* The n smallest members of the starter's set, all of them without Take.
TakenFirst ==
    LET base == StarterSet(Cur, steps[1]) IN
    IF IsSome(TakeArg)
    THEN {i \in base : Cardinality({j \in base : j < i}) < Unwrap(TakeArg)}
    ELSE base

\* C15: whatever the order of the calls of take, sort, skip and select,
\* collect returns the n smallest node indices of the bitmap, put in sort
\* order (in index order without a sort), less the first skip_n of them,
\* each payload cut down to the selected fields.
C15_TakeThenSortSkipSelect ==
    IsSome(outcome) =>
        LET data == Unwrap(outcome)
            first == TakenFirst
            n == Cardinality(first)
            InOrder(a, b) ==
                IF IsSome(sort_by)
                THEN sort_cmp(resolve_single_hit(Cur, a), resolve_single_hit(Cur, b),
                              Unwrap(sort_by)[1], Unwrap(sort_by)[2]) # "Greater"
                ELSE a <= b
        IN  \E L \in [1..n -> first] :
                /\ \A i \in 1..n, j \in 1..n : i < j => (L[i] # L[j] /\ InOrder(L[i], L[j]))
                /\ Len(data) = (IF skip_n < n THEN n - skip_n ELSE 0)
                /\ \A k \in 1..Len(data) :
                      /\ data[k].idx = L[k + skip_n]
                      /\ LET stored == blob_read(Cur, read_node(Cur, data[k].idx).blob_offset)
                         IN  data[k].payload =
                               Some(IF IsSome(select_fields)
                                    THEN [f \in (DOMAIN stored) \cap Unwrap(select_fields)
                                            |-> stored[f]]
                                    ELSE stored)

\* collect has run on a Set on which take was called last, after sort,
\* skip and select, where take cut the bitmap, the skip left two hits or
\* more, and the sort left them in another order than that of the indices.
C15_Witness ==
    /\ IsSome(outcome)
    /\ calls = <<"sort", "skip", "select", "take">>
    /\ Cardinality(TakenFirst) < Cardinality(StarterSet(Cur, steps[1]))
    /\ Len(Unwrap(outcome)) >= 2
    /\ \E k \in 1..Len(Unwrap(outcome)) :
          Cardinality({j \in TakenFirst : j < Unwrap(outcome)[k].idx}) # k + skip_n - 1

\* C16: after a sort, ascending or descending, no hit that lacks the sort
\* field (or holds null in it) comes before a hit that has a value in it.
C16_NullsLast ==
    (IsSome(outcome) /\ IsSome(sort_by)) =>
        LET data == Unwrap(outcome) IN
        \A i \in 1..Len(data), j \in 1..Len(data) :
            i < j => ~(/\ LacksField(Cur, data[i].idx, Unwrap(sort_by)[1])
                       /\ ~LacksField(Cur, data[j].idx, Unwrap(sort_by)[1]))

\* C21: under any interleaving of writers, every slot below the committed
\* count of the node arena has been written by the writer that reserved it:
\* no thread standing between its fetch_add and its write_at holds an index
\* below node_committed.
C21_CommitCoversWrittenSlots ==
    \A t \in DOMAIN writers :
        writers[t].pc = "write_at" => writers[t].n_idx >= node_committed

\* C22: a slot reserved and not committed at a crash is leaked: after the
\* reopen no reservation hands its index out again and no scan of the
\* committed slots finds it active.
C22_LeakedIndexNeverReused ==
    \A i \in leaked :
        /\ \A t \in DOMAIN writers : Reserved(writers[t]) => writers[t].n_idx # i
        /\ ~(i < node_committed /\ read_node(Cur, i).flags # 0)

\* C24: a write that fails after reserving its node slot leaves the slot with
\* flags = 0.
C24_FailedWriteLeavesInactiveSlot ==
    \A i \in failed_writes : read_node(Cur, i).flags = 0

\* The derived indexes of a store.
Derived(S) ==
    [slug_index |-> S.slug_index, bitmaps |-> S.bitmaps,
     collection_counts |-> S.collection_counts,
     field_hash_indexes |-> S.field_hash_indexes,
     adj_fwd |-> S.adj_fwd, adj_rev |-> S.adj_rev]

\* The derived indexes name committed slots only.
DerivedWithinCommitted(S) ==
    /\ \A pos \in DOMAIN S.slug_index.slots :
          S.slug_index.slots[pos].key \notin {KeyEmpty, KeyTombstone}
              => S.slug_index.slots[pos].value < S.node_committed
    /\ \A h \in DOMAIN S.bitmaps : \A i \in S.bitmaps[h] : i < S.node_committed

\* Every item of the batch is found through the slug index.
AllLanded(S, items) ==
    \A k \in 1..Len(items) : IsSome(get(S.slug_index, parse_entity_id(items[k][1])[2]))

\* C23: when a write, batch ingest, delete or link returns an error, the
\* derived indexes name committed slots only, and either none of them changed
\* or every item of the failed operation is indexed.
C23_ErrorLeavesIndexesAllOrNone ==
    [][(IsSome(op_result') /\ ~Unwrap(op_result').ok) =>
          /\ DerivedWithinCommitted(Cur')
          /\ \/ Derived(Cur') = Derived(Cur)
             \/ AllLanded(Cur', Unwrap(op_result').items)]_vars

\* Node id is registered in the graph with layer l allocated.
LayerAllocated(gr, id, l) == id \in DOMAIN gr.nodes /\ l < Len(gr.nodes[id])

\* C26: every node id that occurs in a layer-l neighbour list, or in the
\* entry point with level l, is registered in the graph with layer l
\* allocated, also when the same index is inserted more than once.
C26_NamedNodesRegistered ==
    /\ IsSome(graph.entry_point) =>
          LayerAllocated(graph, Unwrap(graph.entry_point)[1], Unwrap(graph.entry_point)[2])
    /\ \A n \in DOMAIN graph.nodes :
          \A l \in 1..Len(graph.nodes[n]) :
              \A k \in 1..Len(graph.nodes[n][l]) :
                  LayerAllocated(graph, graph.nodes[n][l][k], l - 1)

\* Every index of the arena was inserted into the graph exactly once.
InsertedOnce ==
    /\ Len(insert_log) = Cardinality(DOMAIN storage)
    /\ \A i \in DOMAIN storage : \E k \in 1..Len(insert_log) : insert_log[k].idx = i

\* C27: after n vectors were inserted one after another, each once, the
\* entry point is not null and a search for an inserted vector with ef = 32
\* returns the node of that vector as the nearest neighbour.
C27_SearchFindsInsertedVector ==
    (IsSome(search_out) /\ InsertedOnce) =>
        /\ IsSome(graph.entry_point)
        /\ Unwrap(search_out).results # <<>>
        /\ Unwrap(search_out).results[1].id = Unwrap(search_out).query

\* C29: what search_layer returned to connect_at_level is sorted ascending by
\* distance, so its first element is the closest node found.
C29_SearchLayerSortedAscending ==
    \A e \in 1..Len(insert_log) :
        \A i \in 1..Len(insert_log[e].found), j \in 1..Len(insert_log[e].found) :
            i < j => insert_log[e].found[i].dist <= insert_log[e].found[j].dist

\* C25: under any interleaving of inserts, once the entry point is not null
\* it stays not null and the layer stored in it never decreases.
C25_EntryPointLayerNeverDecreases ==
    [][IsSome(graph.entry_point) =>
          /\ IsSome(graph'.entry_point)
          /\ Unwrap(graph'.entry_point)[2] >= Unwrap(graph.entry_point)[2]]_vars

\* The ids in the neighbour lists of node n, on every layer.
NeighbourIds(gr, n) ==
    IF n \notin DOMAIN gr.nodes THEN {}
    ELSE UNION {{gr.nodes[n][l][k] : k \in 1..Len(gr.nodes[n][l])} :
                   l \in 1..Len(gr.nodes[n])}

\* The nodes reached from the nodes of frontier along neighbour lists.
RECURSIVE ReachedFrom(_, _, _)
ReachedFrom(gr, frontier, seen) ==
    IF frontier = {} THEN seen
    ELSE LET next == UNION {NeighbourIds(gr, n) : n \in frontier} \ seen
         IN  ReachedFrom(gr, next, seen \cup next)

\* C28: when inserts race on an empty graph one of them alone is installed as
\* the first entry point, and once they have returned every other inserted
\* node is reachable from the entry point.
C28_FirstEntryPointInstalledOnce ==
    /\ Cardinality({k \in 1..Len(insert_log) : insert_log[k].first}) <= 1
    /\ (DOMAIN inserts = {} /\ DOMAIN storage # {}) =>
          /\ IsSome(graph.entry_point)
          /\ DOMAIN graph.nodes \subseteq
                ReachedFrom(graph, {Unwrap(graph.entry_point)[1]},
                            {Unwrap(graph.entry_point)[1]})

\* The snapshots that were taken and the writes that have a commit version.
TakenSnapshots == {sn \in snapshots : sn.taken}
VersionedWrites == {id \in DOMAIN txns : IsSome(txns[id].commit_version)}

\* C30: a write with commit version v_w authored by transaction a is visible
\* in a snapshot with version v_t and active set S if and only if v_w <= v_t
\* and a is not in S, for the snapshots taken under any interleaving of begin
\* and commit calls.
C30_VisibleIffCommittedAndNotActive ==
    \A sn \in TakenSnapshots : \A a \in VersionedWrites :
        is_visible(sn, a, Unwrap(txns[a].commit_version))
            <=> /\ Unwrap(txns[a].commit_version) <= sn.version
                /\ a \notin sn.active_txns

\* C30 happens: one snapshot sees a write, and one snapshot does not see a
\* write whose version it covers because the author was still active.
C30_Witness ==
    /\ \E sn \in TakenSnapshots : \E a \in VersionedWrites :
          is_visible(sn, a, Unwrap(txns[a].commit_version))
    /\ \E sn \in TakenSnapshots : \E a \in VersionedWrites :
          /\ Unwrap(txns[a].commit_version) <= sn.version
          /\ a \in sn.active_txns
          /\ ~is_visible(sn, a, Unwrap(txns[a].commit_version))

\* Transactions a and b ran concurrently: each began before the other's
\* commit version was current.
RanConcurrently(a, b) ==
    /\ txns[a].start_version < Unwrap(txns[b].commit_version)
    /\ txns[b].start_version < Unwrap(txns[a].commit_version)

\* C31: two transactions that ran concurrently and wrote the same key never
\* both commit successfully: the commit of the second returns a conflict.
C31_OverlappingWritersNeverBothCommit ==
    \A a \in VersionedWrites, b \in VersionedWrites :
        (/\ a # b
         /\ txns[a].pc = "Committed" /\ txns[b].pc = "Committed"
         /\ RanConcurrently(a, b))
            => txns[a].write_set \cap txns[b].write_set = {}

\* The node slot slug resolves to in S when that slot is active.
LiveIndex(S, slug) ==
    IF IsSome(read_internal(S, slug))
    THEN get(S.slug_index, parse_entity_id(slug)[2]) ELSE None

\* S holds an active edge of type type_hash from the slot of src to the slot of dst.
HasEdge(S, src, dst, type_hash) ==
    /\ IsSome(LiveIndex(S, src)) /\ IsSome(LiveIndex(S, dst))
    /\ \E e \in DOMAIN S.edges :
          /\ e < S.edge_head
          /\ S.edges[e].flags # 0
          /\ S.edges[e].from_node = Unwrap(LiveIndex(S, src))
          /\ S.edges[e].to_node = Unwrap(LiveIndex(S, dst))
          /\ S.edges[e].edge_type_hash = type_hash

\* C32: after a backup was restored into an empty store, every slug that was
\* live at backup time resolves to the payload it had, with its _id; every
\* live edge between two live slugs is there between the same slugs with the
\* same type hash; and the restored store has one edge for each edge of the
\* file whose two slugs resolve, none for the others.
C32_RestoreReproducesStoreBySlug ==
    IsSome(restored) =>
        LET src == Unwrap(restored).source
            rst == Unwrap(restored).store
            file == Unwrap(restored).file
        IN  /\ \A slug \in StoreSlugs :
                  IsSome(read_internal(src, slug)) =>
                      read_internal(rst, slug)
                          = Some(InjectId(Unwrap(read_internal(src, slug)), slug))
            /\ \A a \in StoreSlugs, b \in StoreSlugs, t \in {seahash(ty) : ty \in EdgeTypes} :
                  HasEdge(src, a, b, t) => HasEdge(rst, a, b, t)
            /\ rst.edge_head =
                  Cardinality({k \in 1..Len(file.edges) :
                                  /\ IsSome(get(rst.slug_index,
                                                parse_entity_id(file.edges[k].from)[2]))
                                  /\ IsSome(get(rst.slug_index,
                                                parse_entity_id(file.edges[k].to)[2]))})

\* C33: ForwardParallel and BackwardParallel return the set that Forward and
\* Backward return, for every graph, starting set and hop count.
C33_ParallelTraversalEqualsSequential ==
    IsSome(bfs_out) =>
        /\ Unwrap(bfs_out).forward_parallel = Unwrap(bfs_out).forward
        /\ Unwrap(bfs_out).backward_parallel = Unwrap(bfs_out).backward

\* C33 happens: a traversal of two hops or more, from a frontier two nodes of
\* which have an active edge of the type to one target outside the frontier,
\* on a graph with a cycle of that type through the target.
C33_Witness ==
    /\ IsSome(bfs_out)
    /\ Unwrap(bfs_out).max_hops >= 2
    /\ \E a \in Unwrap(bfs_out).frontier, b \in Unwrap(bfs_out).frontier :
       \E target \in (0..2) \ Unwrap(bfs_out).frontier :
          /\ a # b
          /\ target \in bfs_expand(Cur, "fwd", Unwrap(bfs_out).type_hash, {a})
          /\ target \in bfs_expand(Cur, "fwd", Unwrap(bfs_out).type_hash, {b})
          /\ a \in bfs_expand(Cur, "fwd", Unwrap(bfs_out).type_hash, {target})
          /\ target \in Unwrap(bfs_out).forward_parallel

\* C34: the committed count of the node arena never decreases: every step
\* leaves it at least as large as it was, and when no writer is inside a write
\* it equals the number of reserved slots.
C34_CommittedCountNeverDecreases ==
    /\ [][node_committed' >= node_committed]_vars
    /\ [](writers = <<>> /\ failed_writes = {} /\ leaked = {} => node_committed = node_head)

\* An active edge of S with the ends and the type of the edge e.
LiveTwin(S, e) ==
    \E f \in 0..(S.edge_head - 1) :
        /\ read_edge(S, f).flags # 0
        /\ read_edge(S, f).from_node = e.from_node
        /\ read_edge(S, f).to_node = e.to_node
        /\ read_edge(S, f).edge_type_hash = e.edge_type_hash

\* C35: after unlink(src, dst, type) has tombstoned an edge, no active edge of
\* that type from src to dst remains, however many times the pair was linked.
C35_UnlinkLeavesNoLiveEdge ==
    [][\A e \in 0..(edge_head - 1) :
          (read_edge(Cur, e).flags # 0 /\ read_edge(Cur', e).flags = 0)
              => ~LiveTwin(Cur', read_edge(Cur, e))]_vars

\* C36: no node slot is written at an index at or beyond the capacity of the
\* node arena and no edge slot at or beyond the capacity of the edge arena.
C36_WritesStayWithinCapacity ==
    /\ \A i \in DOMAIN nodes : i < NodeCapacity
    /\ \A e \in DOMAIN edges : e < EdgeCapacity

\* C37: the entries of the WAL file are in strictly increasing LSN order,
\* under any interleaving of append calls, sync calls and the flush thread.
C37_FileInIncreasingLsnOrder ==
    wal # <<>> =>
        \A i \in 1..Len(wal.file), j \in 1..Len(wal.file) :
            i < j => wal.file[i] < wal.file[j]

\* C38: when a sync call has returned, every entry whose append returned
\* before that call began is in the log file.
C38_SyncCoversReturnedAppends ==
    wal # <<>> => wal.synced \subseteq Range(wal.file)

\* C39: once every insert and remove call has returned, lookup_eq(v) returns
\* exactly the nodes whose last inserted value is v and that were not removed
\* afterwards, each once, and count() is the number of those nodes.
C39_MapsAgreeOnceCallsReturned ==
    (hidx # <<>> /\ hidx_calls = <<>>) =>
        /\ \A value \in IndexValues :
              /\ Range(lookup_eq(hidx, value)) =
                    {n \in DOMAIN hidx.last_value : hidx.last_value[n] = hash_value(value)}
              /\ Len(lookup_eq(hidx, value)) = Cardinality(Range(lookup_eq(hidx, value)))
        /\ Cardinality(DOMAIN hidx.reverse) = Cardinality(DOMAIN hidx.last_value)

\* The largest element of a set of numbers.
SetMax(s) == CHOOSE x \in s : \A y \in s : x >= y

\* The levels of set steps inside set steps of a pipeline, written or parsed.
RECURSIVE Nesting(_)
Nesting(pipeline) ==
    IF pipeline = <<>> THEN 0
    ELSE SetMax({IF pipeline[i].op \in {"all", "All"} THEN 0
                 ELSE 1 + Nesting(pipeline[i].other) : i \in 1..Len(pipeline)})

\* C40: parse_pipeline rejects every query nested more than
\* max_nested_pipelines levels deep, and every pipeline it accepts nests at
\* most that deep.
C40_ParserRejectsDeepNesting ==
    IsSome(parsed) =>
        /\ Nesting(Unwrap(parsed).doc) > max_nested_pipelines => ~Unwrap(parsed).result.ok
        /\ Unwrap(parsed).result.ok =>
              Nesting(Unwrap(parsed).result.steps) <= max_nested_pipelines

====
